---- MODULE Spec2Model ----
(***************************************************************************)
(* Model of the Python SDK's turn machinery:                               *)
(*   codex_sdk/types.py   parse_thread_event, parse_thread_item            *)
(*   codex_sdk/exec.py    CodexExec.run, terminate_process                 *)
(*   codex_sdk/thread.py  Thread._run_streamed_internal, Thread.run        *)
(* One consumer thread drives the generators; the subprocess and the       *)
(* setter of the cancellation event run asynchronously to it.              *)
(***************************************************************************)
EXTENDS Integers, Sequences, FiniteSets, TLC

(***************************************************************************)
(* Bounds of the model.                                                    *)
(***************************************************************************)
MaxLines == 2
MaxTurns == 2
MaxTasks == 3
MaxConcurrency == 2
MaxClock == 2
MaxEntries == 2
MaxMsgs == 4
MaxPipe == 1

(***************************************************************************)
(* Python / JSON values.  json.loads gives None, str, int, bool, dict and  *)
(* list values; each is a tagged record so that values of different types  *)
(* can be compared.                                                        *)
(***************************************************************************)
PyNone == [t |-> "null"]
JStr(s) == [t |-> "str", s |-> s]
JInt(n) == [t |-> "int", n |-> n]
JBool(b) == [t |-> "bool", b |-> b]
JObj(d) == [t |-> "obj", d |-> d]
JArr(a) == [t |-> "arr", a |-> a]
EmptyDict == <<>>

\* dict.get(k, default)
Get(d, k, default) == IF k \in DOMAIN d THEN d[k] ELSE default

\* truth value of a Python object, as used by `or` and `if`
Truthy(v) ==
    CASE v.t = "null" -> FALSE
      [] v.t = "str" -> v.s # ""
      [] v.t = "int" -> v.n # 0
      [] v.t = "bool" -> v.b
      [] v.t = "obj" -> DOMAIN v.d # {}
      [] v.t = "arr" -> Len(v.a) # 0

\* `v or w`
PyOr(v, w) == IF Truthy(v) THEN v ELSE w

\* str(v)
Str(v) ==
    CASE v.t = "str" -> v.s
      [] v.t = "null" -> "None"
      [] v.t = "int" -> ToString(v.n)
      [] v.t = "bool" -> (IF v.b THEN "True" ELSE "False")
      [] OTHER -> "<repr>"

\* bool(v)
Bool(v) == Truthy(v)

\* the result of an operation that may raise
Ok(v) == [ok |-> TRUE, val |-> v]
Err(e) == [ok |-> FALSE, err |-> e]

\* int(v): numbers convert, anything else in the model's universe raises
IntOf(v) ==
    CASE v.t = "int" -> Ok(v.n)
      [] v.t = "bool" -> Ok(IF v.b THEN 1 ELSE 0)
      [] v.t = "str" -> Err("ValueError")
      [] OTHER -> Err("TypeError")

(***************************************************************************)
(* types.py: parse_thread_item                                             *)
(***************************************************************************)
\* the list comprehensions over `changes` and `items`
ParseChanges(a) ==
    [i \in DOMAIN a |->
        [path |-> Str(Get(a[i].d, "path", JStr(""))),
         kind |-> Str(Get(a[i].d, "kind", JStr("")))]]

ParseTodos_notCompleted(a) ==
    [i \in DOMAIN a |->
        [text |-> Str(Get(a[i].d, "text", JStr(""))), completed |-> FALSE]]

ParseTodos(a) ==
    [i \in DOMAIN a |->
        [text |-> Str(Get(a[i].d, "text", JStr(""))),
         completed |-> Bool(Get(a[i].d, "completed", JBool(FALSE)))]]

ParseMcpResult(v) ==
    IF v.t = "obj"
    THEN [t |-> "McpToolCallResult",
          content |-> PyOr(Get(v.d, "content", PyNone), JArr(<<>>)),
          structured_content |-> Get(v.d, "structured_content", PyNone)]
    ELSE PyNone

ParseMcpError(v) ==
    IF v.t = "obj"
    THEN [t |-> "McpToolCallError", message |-> Str(Get(v.d, "message", JStr("")))]
    ELSE PyNone

parse_thread_item(v) ==
    IF v.t # "obj" THEN Err("AttributeError")
    ELSE
    LET data == v.d
        item_type == Get(data, "type", PyNone)
        item_id == Str(Get(data, "id", JStr("")))
    IN  CASE item_type = JStr("agent_message") ->
               Ok([id |-> item_id, type |-> "agent_message",
                   text |-> Str(Get(data, "text", JStr("")))])
          [] item_type = JStr("reasoning") ->
               Ok([id |-> item_id, type |-> "reasoning",
                   text |-> Str(Get(data, "text", JStr("")))])
          [] item_type = JStr("command_execution") ->
               Ok([id |-> item_id, type |-> "command_execution",
                   command |-> Str(Get(data, "command", JStr(""))),
                   aggregated_output |-> Str(Get(data, "aggregated_output", JStr(""))),
                   exit_code |-> Get(data, "exit_code", PyNone),
                   status |-> Str(Get(data, "status", JStr("")))])
          [] item_type = JStr("file_change") ->
               Ok([id |-> item_id, type |-> "file_change",
                   changes |-> ParseChanges(PyOr(Get(data, "changes", PyNone), JArr(<<>>)).a),
                   status |-> Str(Get(data, "status", JStr("")))])
          [] item_type = JStr("mcp_tool_call") ->
               Ok([id |-> item_id, type |-> "mcp_tool_call",
                   server |-> Str(Get(data, "server", JStr(""))),
                   tool |-> Str(Get(data, "tool", JStr(""))),
                   arguments |-> Get(data, "arguments", PyNone),
                   status |-> Str(Get(data, "status", JStr(""))),
                   result |-> ParseMcpResult(Get(data, "result", PyNone)),
                   error |-> ParseMcpError(Get(data, "error", PyNone))])
          [] item_type = JStr("web_search") ->
               Ok([id |-> item_id, type |-> "web_search",
                   query |-> Str(Get(data, "query", JStr("")))])
          [] item_type = JStr("todo_list") ->
               Ok([id |-> item_id, type |-> "todo_list",
                   items |-> ParseTodos(PyOr(Get(data, "items", PyNone), JArr(<<>>)).a)])
          [] item_type = JStr("error") ->
               Ok([id |-> item_id, type |-> "error",
                   message |-> Str(Get(data, "message", JStr("")))])
          [] OTHER -> Err("ValueError")

(***************************************************************************)
(* types.py: parse_thread_event                                            *)
(***************************************************************************)
\* a line of text on the wire: JSON text of a value, or text that is no JSON
JsonText(v) == [k |-> "json", v |-> v]
PlainText(s) == [k |-> "text", s |-> s]

\* json.loads(text)
json_loads(text) ==
    IF text.k = "json" THEN Ok(text.v) ELSE Err("JSONDecodeError")

ParseUsage_oneCount(usage_data) ==
    LET i == IntOf(PyOr(Get(usage_data, "input_tokens", JInt(0)), JInt(0)))
    IN  IF ~i.ok THEN i
        ELSE Ok([input_tokens |-> i.val, cached_input_tokens |-> i.val,
                 output_tokens |-> i.val])

ParseUsage(usage_data) ==
    LET i == IntOf(PyOr(Get(usage_data, "input_tokens", JInt(0)), JInt(0)))
        c == IntOf(PyOr(Get(usage_data, "cached_input_tokens", JInt(0)), JInt(0)))
        o == IntOf(PyOr(Get(usage_data, "output_tokens", JInt(0)), JInt(0)))
    IN  IF ~i.ok THEN i
        ELSE IF ~c.ok THEN c
        ELSE IF ~o.ok THEN o
        ELSE Ok([input_tokens |-> i.val, cached_input_tokens |-> c.val,
                 output_tokens |-> o.val])

ItemEvent_defaultsItem(event_type, data) ==
    IF "item" \notin DOMAIN data THEN Err("KeyError")
    ELSE LET it == parse_thread_item(data["item"])
         IN  IF it.ok THEN Ok([type |-> event_type, item |-> it.val])
             ELSE Ok([type |-> event_type,
                      item |-> [id |-> "", type |-> "error", message |-> ""]])

ItemEvent(event_type, data) ==
    IF "item" \notin DOMAIN data THEN Err("KeyError")
    ELSE LET it == parse_thread_item(data["item"])
         IN  IF it.ok THEN Ok([type |-> event_type, item |-> it.val]) ELSE it

parse_thread_event(payload) ==
    LET loaded == json_loads(payload)
    IN  IF ~loaded.ok THEN loaded
        ELSE IF loaded.val.t # "obj" THEN Err("AttributeError")
        ELSE
        LET data == loaded.val.d
            event_type == Get(data, "type", PyNone)
        IN  CASE event_type = JStr("thread.started") ->
                   IF "thread_id" \in DOMAIN data
                   THEN Ok([type |-> "thread.started", thread_id |-> Str(data["thread_id"])])
                   ELSE Err("KeyError")
              [] event_type = JStr("turn.started") ->
                   Ok([type |-> "turn.started"])
              [] event_type = JStr("turn.completed") ->
                   LET usage_data == PyOr(Get(data, "usage", JObj(EmptyDict)), JObj(EmptyDict))
                       usage == IF usage_data.t = "obj" THEN ParseUsage(usage_data.d)
                                ELSE Err("AttributeError")
                   IN  IF usage.ok
                       THEN Ok([type |-> "turn.completed", usage |-> usage.val])
                       ELSE usage
              [] event_type = JStr("turn.failed") ->
                   LET error == PyOr(Get(data, "error", PyNone), JObj(EmptyDict))
                   IN  IF error.t = "obj"
                       THEN Ok([type |-> "turn.failed",
                                error |-> [message |-> Str(Get(error.d, "message", JStr("")))]])
                       ELSE Err("AttributeError")
              [] event_type = JStr("item.started") -> ItemEvent("item.started", data)
              [] event_type = JStr("item.updated") -> ItemEvent("item.updated", data)
              [] event_type = JStr("item.completed") -> ItemEvent("item.completed", data)
              [] event_type = JStr("error") ->
                   Ok([type |-> "error", message |-> Str(Get(data, "message", JStr("")))])
              [] OTHER -> Err("ValueError")

(***************************************************************************)
(* The lines a subprocess may write to its standard output.                *)
(***************************************************************************)
RawLine(text) == [text |-> text, eol |-> "\n"]

\* raw_line.rstrip("\r\n")
rstrip_crlf(raw) == raw.text

AgentMessage(i, text) ==
    JObj([type |-> JStr("agent_message"), id |-> JStr(i), text |-> JStr(text)])
CommandExecution(i) ==
    JObj([type |-> JStr("command_execution"), id |-> JStr(i), command |-> JStr("ls"),
          aggregated_output |-> JStr("out"), status |-> JStr("completed"),
          exit_code |-> JInt(0)])
ItemLine(event_type, item) == JsonText(JObj([type |-> JStr(event_type), item |-> item]))
ThreadStartedLine(tid) ==
    JsonText(JObj([type |-> JStr("thread.started"), thread_id |-> JStr(tid)]))
TurnCompletedLine ==
    JsonText(JObj([type |-> JStr("turn.completed"),
                   usage |-> JObj([input_tokens |-> JInt(10), cached_input_tokens |-> JInt(2),
                                   output_tokens |-> JInt(3)])]))
TurnFailedLine(m) ==
    JsonText(JObj([type |-> JStr("turn.failed"), error |-> JObj([message |-> JStr(m)])]))
ErrorLine(m) == JsonText(JObj([type |-> JStr("error"), message |-> JStr(m)]))

FailureMessages == {"m", ""}

EventTexts ==
    {ThreadStartedLine("t1"),
     ItemLine("item.completed", AgentMessage("m1", "A")),
     ItemLine("item.completed", AgentMessage("m2", "B")),
     ItemLine("item.completed", CommandExecution("c1")),
     ItemLine("item.started", AgentMessage("m3", "S")),
     TurnCompletedLine}
    \cup {TurnFailedLine(m) : m \in FailureMessages}
    \cup {ErrorLine(m) : m \in FailureMessages}

BlankTexts == {PlainText(""), PlainText(" ")}

BadTexts == {PlainText("not json"), JsonText(JObj([type |-> JStr("bogus")]))}

WireLines == {RawLine(t) : t \in EventTexts \cup BlankTexts \cup BadTexts}

\* how a subprocess may end: exit status and what it wrote to standard error
ExitCases == {[rc |-> 0, err |-> ""], [rc |-> 1, err |-> "boom"]}

ThreadIds == {PyNone, JStr("t0")}

(***************************************************************************)
(* State                                                                   *)
(***************************************************************************)
VARIABLES
    id,          \* Thread._id
    turn,        \* number of turns started on the Thread
    mode,        \* "run": Thread.run, "streamed": the caller iterates run_streamed
    pc,          \* where the consumer thread is
    cancel,      \* cancellation_event.is_set()
    proc,        \* the subprocess: st, rc (returncode), term/kill (signals sent)
    stdin,       \* the input written to the subprocess's stdin: written or not
    stdinRoom,   \* the pipe to the subprocess's stdin has room for the input
    handles,     \* the parent's stdout and stderr handles
    childOut,    \* the subprocess still has its standard output open
    emitted,     \* the lines the subprocess wrote to standard output
    readPos,     \* how many of them CodexExec.run has read
    rawLine,     \* the line read last
    stderrText,  \* what the subprocess wrote to standard error
    innerGen,    \* the generator of CodexExec.run
    outerGen,    \* the generator of Thread._run_streamed_internal
    acc,         \* the locals of Thread.run
    events,      \* the events yielded by _run_streamed_internal this turn
    outcome,     \* what the turn returned or raised to the caller
    output_schema, \* TurnOptions.output_schema of the turn
    schemaFile,  \* the temporary schema file: "none", "exists" or "removed"
    command,     \* the arguments the subprocess of the turn was spawned with
    concurrency, \* bench harness: the concurrency limit of run_case
    sem,         \* bench harness: the value of the semaphore of run_case
    tasks,       \* bench harness: the run_once tasks of run_case
    cancelling,  \* bench harness: the event loop has cancelled its tasks
    readers,     \* bench harness: the frames of the read_stdout calls, by task
    clock,       \* bench harness: time.perf_counter()
    arg,         \* a function of the SDK taken alone: the arguments of the call
    ret,         \* ... and what the steps applied to them so far returned
    lists,       \* the list objects created by the calls of Thread.run, by identity
    stub         \* jsonrpc_exec_stub.py: the state of run_exec_over_jsonrpc

turnVars == <<id, turn, mode, pc, cancel, proc, stdin, handles, childOut, emitted, readPos,
              rawLine, stderrText, innerGen, outerGen, acc, events, outcome,
              output_schema, schemaFile, command, stdinRoom>>
benchVars == <<concurrency, sem, tasks, cancelling>>
readerVars == <<readers, clock>>
pureVars == <<arg, ret>>
vars == <<turnVars, benchVars, readerVars, pureVars, lists, stub>>

\* what a step of a turn, and a step of the bench harness, leaves alone
besideTurn == <<benchVars, readerVars, pureVars, lists, stub>>
besideBench == <<turnVars, readerVars, pureVars, lists, stub>>

NoProc == [st |-> "none", rc |-> 0, term |-> FALSE, kill |-> FALSE]
NoHandles == [stdout |-> "none", stderr |-> "none"]
OpenHandles == [stdout |-> "open", stderr |-> "open"]
ClosedHandles == [stdout |-> "closed", stderr |-> "closed"]
NoLine == RawLine(PlainText(""))

Pending == [kind |-> "pending"]
Raise(exc, msg) == [kind |-> "raise", exc |-> exc, msg |-> msg]
Result(items, final_response, usage) ==
    [kind |-> "result", items |-> items, final_response |-> final_response, usage |-> usage]
Exhausted == [kind |-> "exhausted"]
Closed == [kind |-> "closed"]

\* no subprocess was spawned, so there is no command line
NoCommand == [spawned |-> FALSE]

\* Thread.run, lines 97-100
InitAcc == [items |-> <<>>, final_response |-> "", usage |-> PyNone, turn_failure |-> PyNone]

\* a Thread constructed with one of the ids `ids`, before its first turn
InitWith(ids) ==
    /\ id \in ids
    /\ turn = 0
    /\ mode = "run"
    /\ pc = "idle"
    /\ cancel = FALSE
    /\ proc = NoProc
    /\ stdin = FALSE
    /\ handles = NoHandles
    /\ childOut = FALSE
    /\ emitted = <<>>
    /\ readPos = 0
    /\ rawLine = NoLine
    /\ stderrText = ""
    /\ innerGen = "unstarted"
    /\ outerGen = "unstarted"
    /\ acc = InitAcc
    /\ events = <<>>
    /\ outcome = Pending
    /\ output_schema = PyNone
    /\ schemaFile = "none"
    /\ command = NoCommand
    /\ stdinRoom = TRUE

\* no bench harness is running
NoBench ==
    /\ concurrency = 0
    /\ sem = 0
    /\ tasks = <<>>
    /\ cancelling = FALSE

\* no read_stdout call has been made
NoReaders ==
    /\ readers = <<>>
    /\ clock = 1

\* no function is being looked at alone
\* Thread.run was not called, run_exec_over_jsonrpc was not called
NoLists == lists = <<>>
NoStub == stub = PyNone

NoPure ==
    /\ arg = PyNone
    /\ ret = <<>>

Init == InitWith(ThreadIds) /\ NoBench /\ NoReaders /\ NoPure /\ NoLists /\ NoStub

(***************************************************************************)
(* schema_file.py: create_output_schema_file and the cleanup it returns    *)
(***************************************************************************)
OutputSchema == JObj([type |-> JStr("object")])
SchemaPath == JStr("codex-output-schema-/schema.json")

\* a schema file written for whatever is not None
create_output_schema_file_ofAnything(schema, wrote) ==
    IF schema = PyNone THEN [ok |-> TRUE, path |-> PyNone, file |-> "none"]
    ELSE IF wrote THEN [ok |-> TRUE, path |-> SchemaPath, file |-> "exists"]
    ELSE [ok |-> FALSE, err |-> "OSError", msg |-> <<>>, file |-> "removed"]

\* `wrote` is whether writing schema.json succeeded; when it failed the
\* directory is removed before the error is raised
create_output_schema_file(schema, wrote) ==
    IF schema = PyNone THEN [ok |-> TRUE, path |-> PyNone, file |-> "none"]
    ELSE IF schema.t # "obj"
    THEN [ok |-> FALSE, err |-> "ValueError",
          msg |-> <<"output_schema must be a plain JSON object">>, file |-> "none"]
    ELSE IF wrote THEN [ok |-> TRUE, path |-> SchemaPath, file |-> "exists"]
    ELSE [ok |-> FALSE, err |-> "OSError", msg |-> <<>>, file |-> "removed"]

\* the cleanup callback: _noop_cleanup when there is no schema, otherwise
\* shutil.rmtree of the directory
cleanup_keepsFile(file) == file

cleanup(file) == IF file = "exists" THEN "removed" ELSE file

(***************************************************************************)
(* exec.py: terminate_process and the handlers of CodexExec.run            *)
(***************************************************************************)
\* terminate_process: terminate a running process, wait for it for the grace
\* period, and kill it if it is still alive.  `grace` is whether the process
\* exits within the grace period.
terminate_process_noKill(p, grace) ==
    IF p.st = "running"
    THEN IF grace
         THEN [p EXCEPT !.st = "exited", !.rc = -15, !.term = TRUE]
         ELSE [p EXCEPT !.term = TRUE]
    ELSE p

terminate_process(p, grace) ==
    IF p.st = "running"
    THEN IF grace
         THEN [p EXCEPT !.st = "exited", !.rc = -15, !.term = TRUE]
         ELSE [p EXCEPT !.st = "killed", !.term = TRUE, !.kill = TRUE]
    ELSE p

\* the finally block of CodexExec.run, process part: a process that is still
\* running is terminated; a killed one (SIGKILL cannot be caught) is gone by
\* the time of the poll or within the wait that follows it
ExecFinally(p, grace) ==
    IF p.st = "running" THEN terminate_process(p, grace)
    ELSE IF p.st = "killed" THEN [p EXCEPT !.st = "exited", !.rc = -9]
    ELSE p

ExecExcept_skipsTerminate(p, grace) == p

\* the except blocks of CodexExec.run followed by its finally block
ExecExcept(p, grace) == ExecFinally(terminate_process(p, grace), grace)

\* lines 50-78: the arguments that depend on the turn: --output-schema with
\* the path of the schema file, and `resume <thread_id>` when
\* `args.thread_id` is true
CommandArgs_neverResumes(thread_id, schema_path) ==
    [spawned |-> TRUE, output_schema |-> schema_path, resume |-> PyNone]

CommandArgs(thread_id, schema_path) ==
    [spawned |-> TRUE,
     output_schema |-> schema_path,
     resume |-> IF Truthy(thread_id) THEN thread_id ELSE PyNone]

\* the four reads of the cancellation event in CodexExec.run
CancelledBeforeStart == cancel
CancelledBeforeFirstEvent == cancel
CancelledAtLine_notChecked == FALSE

CancelledAtLine == cancel

CancelledAfterExit_notChecked == FALSE

CancelledAfterExit_unlessFailed == cancel /\ proc.rc = 0

CancelledAfterExit == cancel

\* `if process.returncode:`
ProcessFailed(p) == p.rc # 0

\* f"Codex Exec exited with code {process.returncode}: {stderr_output}"
ExitMessage_noStderr(rc, stderr_output) ==
    <<"Codex Exec exited with code ", ToString(rc), ": ", "">>

ExitMessage(rc, stderr_output) ==
    <<"Codex Exec exited with code ", ToString(rc), ": ", stderr_output>>

(***************************************************************************)
(* thread.py: the body of the loop of Thread.run and its epilogue          *)
(***************************************************************************)
\* the event types at which the loop of Thread.run breaks
Breaks(event) == event.type \in {"turn.failed", "error"}

RecordItem_keepsFirst(a, item) ==
    [a EXCEPT !.items = Append(@, item),
              !.final_response =
                  IF item.type = "agent_message" /\ @ = "" THEN item.text ELSE @]

RecordItem_prepends(a, item) ==
    [a EXCEPT !.items = <<item>> \o @,
              !.final_response = IF item.type = "agent_message" THEN item.text ELSE @]

\* lines 105-107
RecordItem(a, item) ==
    [a EXCEPT !.items = Append(@, item),
              !.final_response = IF item.type = "agent_message" THEN item.text ELSE @]

RunDispatch_keepsFirstUsage(a, event) ==
    CASE event.type = "item.completed" -> RecordItem(a, event.item)
      [] event.type = "turn.completed" ->
           [a EXCEPT !.usage = IF @ = PyNone THEN event.usage ELSE @]
      [] event.type = "turn.failed" -> [a EXCEPT !.turn_failure = JStr(event.error.message)]
      [] event.type = "error" -> [a EXCEPT !.turn_failure = JStr(event.message)]
      [] OTHER -> a

\* lines 104-115
RunDispatch(a, event) ==
    CASE event.type = "item.completed" -> RecordItem(a, event.item)
      [] event.type = "turn.completed" -> [a EXCEPT !.usage = event.usage]
      [] event.type = "turn.failed" -> [a EXCEPT !.turn_failure = JStr(event.error.message)]
      [] event.type = "error" -> [a EXCEPT !.turn_failure = JStr(event.message)]
      [] OTHER -> a

\* lines 120-122
RunFinish(a) ==
    IF Truthy(a.turn_failure)
    THEN Raise("ThreadRunError", <<a.turn_failure.s>>)
    ELSE Result(a.items, a.final_response, a.usage)

(***************************************************************************)
(* The caller                                                              *)
(***************************************************************************)
\* the generator of CodexExec.run was abandoned while suspended at its yield
Orphaned == innerGen = "suspended" /\ outerGen = "done"

\* Thread.run(...) or Thread.run_streamed(...) is called; the cancellation
\* event given to it may already be set
StartTurn(m, c, schema) ==
    /\ pc \in {"idle", "done"}
    /\ ~Orphaned
    /\ turn < MaxTurns
    /\ turn' = turn + 1
    /\ mode' = m
    /\ cancel' = c
    /\ pc' = IF m = "run" THEN "start" ELSE "created"
    /\ proc' = NoProc
    /\ stdin' = FALSE
    /\ handles' = NoHandles
    /\ childOut' = FALSE
    /\ emitted' = <<>>
    /\ readPos' = 0
    /\ rawLine' = NoLine
    /\ stderrText' = ""
    /\ innerGen' = "unstarted"
    /\ outerGen' = IF m = "run" THEN "active" ELSE "unstarted"
    /\ acc' = InitAcc
    /\ events' = <<>>
    /\ outcome' = Pending
    /\ output_schema' = schema
    /\ schemaFile' = "none"
    /\ command' = NoCommand
    /\ stdinRoom' = TRUE
    /\ UNCHANGED <<id, besideTurn>>

\* another thread sets the cancellation event
SetCancel ==
    /\ UNCHANGED <<output_schema, schemaFile, command, stdinRoom, besideTurn>>
    /\ pc \notin {"idle", "done"}
    /\ ~cancel
    /\ cancel' = TRUE
    /\ UNCHANGED <<id, turn, mode, pc, proc, stdin, handles, childOut, emitted, readPos,
                   rawLine, stderrText, innerGen, outerGen, acc, events, outcome>>

\* the caller of run_streamed asks for the next event
StreamNext ==
    /\ UNCHANGED <<output_schema, schemaFile, command, stdinRoom, besideTurn>>
    /\ mode = "streamed"
    /\ pc \in {"created", "yielded"}
    /\ pc' = IF pc = "created" THEN "start" ELSE "read"
    /\ outerGen' = "active"
    /\ innerGen' = IF pc = "created" THEN innerGen ELSE "active"
    /\ UNCHANGED <<id, turn, mode, cancel, proc, stdin, handles, childOut, emitted, readPos,
                   rawLine, stderrText, acc, events, outcome>>

(***************************************************************************)
(* The subprocess                                                          *)
(***************************************************************************)
ProcEmit(l) ==
    /\ UNCHANGED <<output_schema, schemaFile, command, stdinRoom, besideTurn>>
    /\ proc.st = "running"
    /\ childOut
    /\ Len(emitted) < MaxLines
    /\ emitted' = Append(emitted, l)
    /\ UNCHANGED <<id, turn, mode, pc, cancel, proc, stdin, handles, childOut, readPos,
                   rawLine, stderrText, innerGen, outerGen, acc, events, outcome>>

\* the subprocess reads its standard input, which makes room in the pipe
ProcReadStdin ==
    /\ proc.st = "running"
    /\ ~stdin
    /\ ~stdinRoom
    /\ stdinRoom' = TRUE
    /\ UNCHANGED <<id, turn, mode, pc, cancel, proc, stdin, handles, childOut, emitted,
                   readPos, rawLine, stderrText, innerGen, outerGen, acc, events, outcome,
                   output_schema, schemaFile, command, besideTurn>>

ProcCloseStdout ==
    /\ UNCHANGED <<output_schema, schemaFile, command, stdinRoom, besideTurn>>
    /\ proc.st = "running"
    /\ childOut
    /\ childOut' = FALSE
    /\ UNCHANGED <<id, turn, mode, pc, cancel, proc, stdin, handles, emitted, readPos,
                   rawLine, stderrText, innerGen, outerGen, acc, events, outcome>>

ProcExit(e) ==
    /\ UNCHANGED <<output_schema, schemaFile, command, stdinRoom, besideTurn>>
    /\ proc.st = "running"
    /\ proc' = [proc EXCEPT !.st = "exited", !.rc = e.rc]
    /\ stderrText' = e.err
    /\ childOut' = FALSE
    /\ UNCHANGED <<id, turn, mode, pc, cancel, stdin, handles, emitted, readPos,
                   rawLine, innerGen, outerGen, acc, events, outcome>>

(***************************************************************************)
(* exec.py: CodexExec.run, driven through _run_streamed_internal by        *)
(* Thread.run or by the caller of run_streamed                             *)
(***************************************************************************)
\* an exception raised inside the try block of CodexExec.run: the except
\* block terminates the process, the finally block closes the handles, and
\* the exception passes through _run_streamed_internal and Thread.run to the
\* caller
ExecRaises(exc, msg) ==
    \E grace \in BOOLEAN :
        /\ proc' = ExecExcept(proc, grace)
        /\ handles' = ClosedHandles
        /\ innerGen' = "finished"
        /\ outerGen' = "done"
        /\ outcome' = Raise(exc, msg)
        /\ schemaFile' = cleanup(schemaFile)
        /\ pc' = "done"

\* _run_streamed_internal ends while the generator of CodexExec.run is
\* suspended at its yield: its finally block removes the schema file, but
\* nothing closes that generator, it is finalized when the interpreter
\* collects it, at once (prompt) or later (Finalize)
AbandonInner ==
    \E prompt \in BOOLEAN, grace \in BOOLEAN :
        /\ outerGen' = "done"
        /\ schemaFile' = cleanup(schemaFile)
        /\ IF prompt
           THEN /\ proc' = ExecFinally(proc, grace)
                /\ handles' = ClosedHandles
                /\ innerGen' = "finished"
           ELSE /\ innerGen' = "suspended"
                /\ UNCHANGED <<proc, handles>>

\* thread.py lines 65-66 and 85: the schema file is written before the try
\* block; exec.py lines 46-94: the first cancellation check, the command
\* line, Popen
ExecStart ==
    /\ pc = "start"
    /\ \E wrote \in BOOLEAN :
        LET made == create_output_schema_file(output_schema, wrote)
        IN  IF ~made.ok
            THEN /\ outcome' = Raise(made.err, made.msg)
                 /\ schemaFile' = made.file
                 /\ pc' = "done"
                 /\ outerGen' = "done"
                 /\ UNCHANGED <<proc, handles, childOut, innerGen, command, stdinRoom>>
            ELSE IF CancelledBeforeStart
            THEN /\ outcome' = Raise("CancelledError", <<"Turn cancelled before start">>)
                 /\ schemaFile' = cleanup(made.file)
                 /\ pc' = "done"
                 /\ innerGen' = "finished"
                 /\ outerGen' = "done"
                 /\ UNCHANGED <<proc, handles, childOut, command, stdinRoom>>
            ELSE /\ schemaFile' = made.file
                 /\ command' = CommandArgs(id, made.path)
                 /\ stdinRoom' \in BOOLEAN
                 /\ proc' = [NoProc EXCEPT !.st = "running"]
                 /\ handles' = OpenHandles
                 /\ childOut' = TRUE
                 /\ pc' = "spawned"
                 /\ innerGen' = "active"
                 /\ UNCHANGED <<outcome, outerGen>>
    /\ UNCHANGED <<id, turn, mode, cancel, stdin, emitted, readPos, rawLine, stderrText,
                   acc, events, output_schema, besideTurn>>

\* stdin.write returns when the pipe has taken the input: when it has room
\* for it, or at once with an error when the subprocess is gone
PipeAccepts_never(room, p) == p.st # "running"

PipeAccepts(room, p) == room \/ p.st # "running"

\* lines 96-97: the input is written to the subprocess and its stdin closed;
\* the write blocks while the pipe has no room for the input, and writing to
\* a subprocess that is gone raises BrokenPipeError
ExecWrite ==
    /\ pc = "spawned"
    /\ PipeAccepts(stdinRoom, proc)
    /\ IF proc.st = "exited"
       THEN /\ ExecRaises("BrokenPipeError", <<>>)
            /\ UNCHANGED stdin
       ELSE /\ stdin' = TRUE
            /\ pc' = "written"
            /\ UNCHANGED <<proc, handles, innerGen, outerGen, outcome, schemaFile>>
    /\ UNCHANGED <<id, turn, mode, cancel, childOut, emitted, readPos, rawLine, stderrText,
                   acc, events, output_schema, command, stdinRoom, besideTurn>>

\* lines 99-100
ExecCheckFirst ==
    /\ pc = "written"
    /\ IF CancelledBeforeFirstEvent
       THEN ExecRaises("CancelledError", <<"Turn cancelled before first event">>)
       ELSE /\ pc' = "read"
            /\ UNCHANGED <<proc, handles, innerGen, outerGen, outcome, schemaFile>>
    /\ UNCHANGED <<id, turn, mode, cancel, stdin, childOut, emitted, readPos, rawLine,
                   stderrText, acc, events, output_schema, command, stdinRoom, besideTurn>>

ExecReadLine_newestFirst ==
    /\ UNCHANGED <<output_schema, schemaFile, command, stdinRoom, besideTurn>>
    /\ pc = "read"
    /\ \/ /\ readPos < Len(emitted)
          /\ rawLine' = emitted[Len(emitted) - readPos]
          /\ readPos' = readPos + 1
          /\ pc' = "gotline"
       \/ /\ readPos = Len(emitted)
          /\ ~childOut
          /\ pc' = "wait"
          /\ UNCHANGED <<rawLine, readPos>>
    /\ UNCHANGED <<id, turn, mode, cancel, proc, stdin, handles, childOut, emitted,
                   stderrText, innerGen, outerGen, acc, events, outcome>>

\* line 102: `for raw_line in process.stdout` blocks until the subprocess has
\* written a line or closed its standard output
ExecReadLine ==
    /\ UNCHANGED <<output_schema, schemaFile, command, stdinRoom, besideTurn>>
    /\ pc = "read"
    /\ \/ /\ readPos < Len(emitted)
          /\ rawLine' = emitted[readPos + 1]
          /\ readPos' = readPos + 1
          /\ pc' = "gotline"
       \/ /\ readPos = Len(emitted)
          /\ ~childOut
          /\ pc' = "wait"
          /\ UNCHANGED <<rawLine, readPos>>
    /\ UNCHANGED <<id, turn, mode, cancel, proc, stdin, handles, childOut, emitted,
                   stderrText, innerGen, outerGen, acc, events, outcome>>

\* lines 103-105 of exec.py, then lines 88-91 of thread.py for the line
\* yielded, then (Thread.run) lines 104-115 of thread.py for the event yielded
ExecLine ==
    /\ pc = "gotline"
    /\ IF CancelledAtLine
       THEN /\ ExecRaises("CancelledError", <<"Turn cancelled">>)
            /\ UNCHANGED <<id, acc, events>>
       ELSE LET parsed == parse_thread_event(rstrip_crlf(rawLine))
            IN  IF ~parsed.ok
                THEN \* the exception leaves _run_streamed_internal; its traceback
                     \* keeps the frame, and with it the generator of CodexExec.run
                     /\ outerGen' = "done"
                     /\ innerGen' = "suspended"
                     /\ schemaFile' = cleanup(schemaFile)
                     /\ outcome' = Raise(parsed.err, <<>>)
                     /\ pc' = "done"
                     /\ UNCHANGED <<id, acc, events, proc, handles>>
                ELSE LET event == parsed.val
                     IN  /\ id' = IF event.type = "thread.started"
                                  THEN JStr(event.thread_id) ELSE id
                         /\ events' = Append(events, event)
                         /\ IF mode = "streamed"
                            THEN /\ pc' = "yielded"
                                 /\ innerGen' = "suspended"
                                 /\ outerGen' = "suspended"
                                 /\ UNCHANGED <<acc, proc, handles, outcome, schemaFile>>
                            ELSE /\ acc' = RunDispatch(acc, event)
                                 /\ IF Breaks(event)
                                    THEN /\ AbandonInner
                                         /\ outcome' = RunFinish(acc')
                                         /\ pc' = "done"
                                    ELSE /\ pc' = "read"
                                         /\ UNCHANGED <<proc, handles, innerGen, outerGen,
                                                        outcome, schemaFile>>
    /\ UNCHANGED <<turn, mode, cancel, stdin, childOut, emitted, readPos, rawLine,
                   stderrText, output_schema, command, stdinRoom, besideTurn>>

\* line 107: process.wait() blocks until the subprocess has exited
ExecWait ==
    /\ UNCHANGED <<output_schema, schemaFile, command, stdinRoom, besideTurn>>
    /\ pc = "wait"
    /\ proc.st = "exited"
    /\ pc' = "exited"
    /\ UNCHANGED <<id, turn, mode, cancel, proc, stdin, handles, childOut, emitted, readPos,
                   rawLine, stderrText, innerGen, outerGen, acc, events, outcome>>

\* lines 108-112 of exec.py and, when the generator ends, the epilogue of
\* Thread.run
ExecAfterExit ==
    /\ pc = "exited"
    /\ IF CancelledAfterExit
       THEN ExecRaises("CancelledError", <<"Turn cancelled after process exit">>)
       ELSE IF ProcessFailed(proc)
       THEN ExecRaises("RuntimeError", ExitMessage(proc.rc, stderrText))
       ELSE /\ handles' = ClosedHandles
            /\ innerGen' = "finished"
            /\ outerGen' = "done"
            /\ outcome' = IF mode = "run" THEN RunFinish(acc) ELSE Exhausted
            /\ schemaFile' = cleanup(schemaFile)
            /\ pc' = "done"
            /\ UNCHANGED proc
    /\ UNCHANGED <<id, turn, mode, cancel, stdin, childOut, emitted, readPos, rawLine,
                   stderrText, acc, events, output_schema, command, stdinRoom, besideTurn>>

\* the caller of run_streamed closes the generator instead of draining it
StreamClose ==
    /\ mode = "streamed"
    /\ pc \in {"created", "yielded"}
    /\ IF pc = "created"
       THEN /\ outerGen' = "done"
            /\ UNCHANGED <<proc, handles, innerGen, schemaFile>>
       ELSE AbandonInner
    /\ outcome' = Closed
    /\ pc' = "done"
    /\ UNCHANGED <<id, turn, mode, cancel, stdin, childOut, emitted, readPos, rawLine,
                   stderrText, acc, events, output_schema, command, stdinRoom, besideTurn>>

\* the interpreter finalizes the abandoned generator of CodexExec.run:
\* GeneratorExit is raised at its yield and its finally block runs
Finalize ==
    /\ UNCHANGED <<output_schema, schemaFile, command, stdinRoom, besideTurn>>
    /\ Orphaned
    /\ \E grace \in BOOLEAN : proc' = ExecFinally(proc, grace)
    /\ handles' = ClosedHandles
    /\ innerGen' = "finished"
    /\ UNCHANGED <<id, turn, mode, pc, cancel, stdin, childOut, emitted, readPos, rawLine,
                   stderrText, outerGen, acc, events, outcome>>

Modes == {"run", "streamed"}

\* the steps of the turns of one Thread, the subprocess writing lines of
\* `lines` and the caller passing an output_schema of `schemas`
TurnNext(lines, schemas) ==
    \/ \E m \in Modes, c \in BOOLEAN, s \in schemas : StartTurn(m, c, s)
    \/ \E l \in lines : ProcEmit(l)
    \/ SetCancel
    \/ StreamNext
    \/ StreamClose
    \/ ProcReadStdin
    \/ ProcCloseStdout
    \/ \E e \in ExitCases : ProcExit(e)
    \/ ExecStart
    \/ ExecWrite
    \/ ExecCheckFirst
    \/ ExecReadLine
    \/ ExecLine
    \/ ExecWait
    \/ ExecAfterExit
    \/ Finalize

Next == TurnNext(WireLines, {PyNone})

Spec == Init /\ [][Next]_vars

(***************************************************************************)
(* Progress.  The consumer thread takes its next step whenever it is not   *)
(* blocked, and a caller that iterates a streamed turn asks for the next   *)
(* event; nothing obliges the subprocess to write, to close or to exit.    *)
(***************************************************************************)
ConsumerStep ==
    \/ ExecStart
    \/ ExecWrite
    \/ ExecCheckFirst
    \/ ExecReadLine
    \/ ExecLine
    \/ ExecWait
    \/ ExecAfterExit

FairLines ==
    {RawLine(t) : t \in
        {ItemLine("item.completed", AgentMessage("m1", "A")),
         TurnCompletedLine,
         PlainText("not json")}}

SpecFair ==
    /\ Init
    /\ [][TurnNext(FairLines, {PyNone})]_vars
    /\ WF_vars(ConsumerStep)
    /\ WF_vars(StreamNext)

\* the same turns with any scheduling: where the consumer thread can block
SpecBlocking == Init /\ [][TurnNext(FairLines, {PyNone})]_vars

(***************************************************************************)
(* Turns whose subprocess reports usage more than once.                    *)
(***************************************************************************)
TurnCompletedWith(usage) ==
    JsonText(JObj([type |-> JStr("turn.completed"), usage |-> usage]))

UsageLines ==
    {RawLine(t) : t \in
        {TurnCompletedLine,
         TurnCompletedWith(JObj([input_tokens |-> JInt(7), output_tokens |-> JInt(1)])),
         TurnCompletedWith(PyNone),
         ItemLine("item.completed", AgentMessage("m1", "A")),
         ItemLine("item.completed", AgentMessage("m2", "B")),
         ItemLine("item.started", CommandExecution("c1")),
         TurnFailedLine("m")}}

SpecUsage == Init /\ [][TurnNext(UsageLines, {PyNone})]_vars

(***************************************************************************)
(* Turns whose subprocess writes lines that cannot be decoded.             *)
(***************************************************************************)
DecodeLines ==
    {RawLine(t) : t \in
        {PlainText("not json"),
         JsonText(JInt(5)),
         JsonText(JObj([thread_id |-> JStr("t1")])),
         JsonText(JObj([type |-> JStr("bogus")])),
         JsonText(JObj([type |-> JStr("item.completed")])),
         ItemLine("item.completed", JObj([id |-> JStr("m1"), text |-> JStr("A")])),
         ItemLine("item.started", JObj([type |-> JStr("bogus"), id |-> JStr("m1")])),
         ItemLine("item.completed", AgentMessage("m1", "A")),
         TurnCompletedLine}}

SpecDecode == Init /\ [][TurnNext(DecodeLines, {PyNone})]_vars

(***************************************************************************)
(* Turns run with an output_schema: none, a JSON object, or a value that   *)
(* is no JSON object.                                                      *)
(***************************************************************************)
Schemas == {PyNone, OutputSchema, JArr(<<>>)}

SchemaLines ==
    {RawLine(t) : t \in
        {ItemLine("item.completed", AgentMessage("m1", "A")),
         TurnCompletedLine,
         TurnFailedLine("m"),
         PlainText("not json")}}

SpecSchema == Init /\ [][TurnNext(SchemaLines, Schemas)]_vars

(***************************************************************************)
(* Streamed turns whose caller asks for another event after the sequence   *)
(* of events has ended.                                                    *)
(***************************************************************************)
StreamNextEnded_restarts ==
    /\ mode = "streamed"
    /\ pc = "done"
    /\ outerGen = "done"
    /\ pc' = "start"
    /\ outerGen' = "active"
    /\ outcome' = Pending
    /\ UNCHANGED <<id, turn, mode, cancel, proc, stdin, handles, childOut, emitted, readPos,
                   rawLine, stderrText, innerGen, acc, events, output_schema, schemaFile,
                   command, stdinRoom, besideTurn>>

\* next() on the generator of _run_streamed_internal after it returned,
\* raised or was closed: the body is not entered again, the caller gets
\* StopIteration
StreamNextEnded ==
    /\ mode = "streamed"
    /\ pc = "done"
    /\ outerGen = "done"
    /\ outcome' = Exhausted
    /\ UNCHANGED <<id, turn, mode, pc, cancel, proc, stdin, handles, childOut, emitted,
                   readPos, rawLine, stderrText, innerGen, outerGen, acc, events,
                   output_schema, schemaFile, command, stdinRoom, besideTurn>>

SpecStreamed == Init /\ [][TurnNext(SchemaLines, Schemas) \/ StreamNextEnded]_vars

(***************************************************************************)
(* Thread.run with its lists as objects.  The TurnResult that run returns  *)
(* holds the list `items` that run appended to: `lists` gives the content  *)
(* of every list created, acc.items and the items of a TurnResult are      *)
(* references into it.  The generator of _run_streamed_internal is taken   *)
(* as a source of events that ends or raises at any point.                 *)
(***************************************************************************)
NewList_reused(heap) ==
    IF heap = <<>> THEN [ref |-> 1, heap |-> <<<<>>>>] ELSE [ref |-> 1, heap |-> heap]

\* line 97, `items = []`: a list no other reference leads to
NewList(heap) == [ref |-> Len(heap) + 1, heap |-> Append(heap, <<>>)]

\* the events the generator yields
RunEvents ==
    {parse_thread_event(t).val : t \in
        {ThreadStartedLine("t1"),
         ItemLine("item.completed", AgentMessage("m1", "A")),
         ItemLine("item.completed", CommandExecution("c1")),
         TurnCompletedLine,
         TurnFailedLine("m")}}

besideRun == <<mode, cancel, proc, stdin, handles, childOut, emitted, readPos, rawLine,
               stderrText, innerGen, outerGen, output_schema, schemaFile, command, stdinRoom,
               benchVars, readerVars, arg, stub>>

\* lines 96-100
RunCall ==
    /\ pc \in {"idle", "done"}
    /\ turn < MaxTurns
    /\ turn' = turn + 1
    /\ LET new == NewList(lists)
       IN  /\ lists' = new.heap
           /\ acc' = [InitAcc EXCEPT !.items = new.ref]
    /\ events' = <<>>
    /\ outcome' = Pending
    /\ pc' = "read"
    /\ UNCHANGED <<id, ret, besideRun>>

\* lines 116-122: the TurnResult goes to the caller, who keeps it
RunReturn(a) ==
    LET r == RunFinish(a)
    IN  /\ outcome' = r
        /\ ret' = IF r.kind = "result" THEN Append(ret, r) ELSE ret
        /\ pc' = "done"

\* the generator yields an event: lines 88-91, then lines 102-115
RunEvent(event) ==
    /\ pc = "read"
    /\ Len(events) < MaxLines
    /\ id' = IF event.type = "thread.started" THEN JStr(event.thread_id) ELSE id
    /\ events' = Append(events, event)
    /\ LET a == RunDispatch([acc EXCEPT !.items = lists[acc.items]], event)
       IN  /\ lists' = [lists EXCEPT ![acc.items] = a.items]
           /\ acc' = [a EXCEPT !.items = acc.items]
    /\ IF Breaks(event)
       THEN RunReturn(acc')
       ELSE /\ pc' = "read"
            /\ UNCHANGED <<outcome, ret>>
    /\ UNCHANGED <<turn, besideRun>>

\* the generator is exhausted
RunEnd ==
    /\ pc = "read"
    /\ RunReturn(acc)
    /\ UNCHANGED <<id, turn, acc, events, lists, besideRun>>

\* the generator raises (a cancellation, a failed subprocess, a line that
\* cannot be decoded): the exception passes through Thread.run
RunRaise ==
    /\ pc = "read"
    /\ \E exc \in {"CancelledError", "RuntimeError", "JSONDecodeError"} :
          outcome' = Raise(exc, <<>>)
    /\ pc' = "done"
    /\ UNCHANGED <<id, turn, acc, events, lists, ret, besideRun>>

NextRun ==
    \/ RunCall
    \/ \E event \in RunEvents : RunEvent(event)
    \/ RunEnd
    \/ RunRaise

SpecRun == Init /\ [][NextRun]_vars

(***************************************************************************)
(* jsonrpc_exec_stub.py: run_exec_over_jsonrpc, the app-server it spawns   *)
(* and the reader thread of JsonRpcIO.  `log` is every message the main    *)
(* thread took from the queue ("in") or wrote to the server ("out"), in    *)
(* the order it did; what the script prints is left out.                   *)
(***************************************************************************)
\* to_wire of JSONRPCRequest, JSONRPCNotification and JSONRPCResponse
RpcRequest(rid, method, params) ==
    JObj([id |-> JInt(rid), method |-> JStr(method), params |-> params])
RpcNotification(method, params) ==
    IF params = PyNone THEN JObj([method |-> JStr(method)])
    ELSE JObj([method |-> JStr(method), params |-> params])
RpcResponse(rid, result) == JObj([id |-> rid, result |-> result])

\* what the app-server writes to its standard output, line by line
RpcError(rid) == JObj([id |-> JInt(rid), error |-> JObj([message |-> JStr("e")])])
ServerLines ==
    {JsonText(v) : v \in
        {RpcResponse(JInt(0), JObj(EmptyDict)),
         RpcError(0),
         RpcResponse(JInt(1), JObj([conversationId |-> JStr("c1")])),
         RpcResponse(JInt(1), JObj(EmptyDict)),
         RpcError(1),
         RpcResponse(JInt(3), JObj(EmptyDict)),
         RpcRequest(7, "responsesApi/call", JObj([callId |-> JStr("k1"), url |-> JStr("u")])),
         RpcNotification("codex/event/task_complete", PyNone)}}
    \cup {PlainText("not json")}

\* run_exec_over_jsonrpc is called
NewStub ==
    [pc |-> "start", server |-> "none", terminated |-> FALSE, tmpdir |-> "none",
     next_id |-> 0, incoming |-> <<>>, written |-> 0, log |-> <<>>,
     init_id |-> PyNone, new_conv_id |-> PyNone, conversation_id |-> PyNone,
     send_id |-> PyNone, final_ok |-> FALSE, saw_responses_call |-> FALSE,
     req_id |-> PyNone, call_id |-> PyNone, rc |-> PyNone]

InitStub ==
    /\ InitWith({PyNone})
    /\ NoBench
    /\ NoReaders
    /\ NoPure
    /\ NoLists
    /\ stub = NewStub

besideStub == <<turnVars, benchVars, readerVars, pureVars, lists>>

\* lines 233-247: the temporary CODEX_HOME, the server process, JsonRpcIO
StubStart(use_temp_home) ==
    /\ stub.pc = "start"
    /\ stub' = [stub EXCEPT !.tmpdir = IF use_temp_home THEN "exists" ELSE "none",
                            !.server = "running",
                            !.pc = "w_initialize"]
    /\ UNCHANGED besideStub

\* the message the main thread writes next
Outgoing(st) ==
    LET Event(type) ==
            RpcNotification("responsesApi/event",
                            JObj([callId |-> st.call_id, event |-> JObj([type |-> JStr(type)])]))
    IN  CASE st.pc = "w_initialize" ->
                 RpcRequest(st.next_id, "initialize", JObj([clientInfo |-> JObj(EmptyDict)]))
          [] st.pc = "w_initialized" -> RpcNotification("initialized", PyNone)
          [] st.pc = "w_newConversation" ->
                 RpcRequest(st.next_id, "newConversation", JObj(EmptyDict))
          [] st.pc = "w_addConversationListener" ->
                 RpcRequest(st.next_id, "addConversationListener",
                            JObj([conversationId |-> st.conversation_id,
                                  experimentalRawEvents |-> JBool(TRUE)]))
          [] st.pc = "w_sendUserMessage" ->
                 RpcRequest(st.next_id, "sendUserMessage",
                            JObj([conversationId |-> st.conversation_id]))
          [] st.pc = "w_created" -> Event("response.created")
          [] st.pc = "w_item_done" -> Event("response.output_item.done")
          [] st.pc = "w_completed" -> Event("response.completed")
          [] st.pc = "w_response" ->
                 RpcResponse(st.req_id, JObj([status |-> JInt(200), requestId |-> PyNone,
                                              error |-> PyNone]))

\* where the main thread goes after the write
AfterWrite_skipsResponse(written) ==
    CASE written = "w_initialize" -> "await_initialize"
      [] written = "w_initialized" -> "w_newConversation"
      [] written = "w_newConversation" -> "await_newConversation"
      [] written = "w_addConversationListener" -> "w_sendUserMessage"
      [] written = "w_sendUserMessage" -> "main"
      [] written = "w_created" -> "w_item_done"
      [] written = "w_item_done" -> "w_completed"
      [] written = "w_completed" -> "main"
      [] written = "w_response" -> "main"

AfterWrite(written) ==
    CASE written = "w_initialize" -> "await_initialize"
      [] written = "w_initialized" -> "w_newConversation"
      [] written = "w_newConversation" -> "await_newConversation"
      [] written = "w_addConversationListener" -> "w_sendUserMessage"
      [] written = "w_sendUserMessage" -> "main"
      [] written = "w_created" -> "w_item_done"
      [] written = "w_item_done" -> "w_completed"
      [] written = "w_completed" -> "w_response"
      [] written = "w_response" -> "main"

WritePcs ==
    {"w_initialize", "w_initialized", "w_newConversation", "w_addConversationListener",
     "w_sendUserMessage", "w_created", "w_item_done", "w_completed", "w_response"}

\* JsonRpcIO.send_request / send_notification / send_response: next_id for a
\* request, then send_obj writes the line to the stdin of the server; the
\* write raises BrokenPipeError when the server has exited
StubSend ==
    /\ stub # PyNone
    /\ stub.pc \in WritePcs
    /\ stub' =
          IF stub.server = "exited" THEN [stub EXCEPT !.pc = "raised"]
          ELSE [stub EXCEPT
                   !.log = Append(@, [dir |-> "out", msg |-> Outgoing(stub)]),
                   !.next_id = IF "id" \in DOMAIN Outgoing(stub).d /\ stub.pc # "w_response"
                               THEN @ + 1 ELSE @,
                   !.init_id = IF stub.pc = "w_initialize" THEN stub.next_id ELSE @,
                   !.new_conv_id = IF stub.pc = "w_newConversation" THEN stub.next_id ELSE @,
                   !.send_id = IF stub.pc = "w_sendUserMessage" THEN stub.next_id ELSE @,
                   !.pc = AfterWrite(stub.pc)]
    /\ UNCHANGED besideStub

IsResult_ofAnyRequest(msg, rid) == "result" \in DOMAIN msg.d

\* `"result" in msg and msg.get("id") == rid`, and the same for "error"
IsResult(msg, rid) == "result" \in DOMAIN msg.d /\ Get(msg.d, "id", PyNone) = JInt(rid)
IsError(msg, rid) == "error" \in DOMAIN msg.d /\ Get(msg.d, "id", PyNone) = JInt(rid)

\* `return 2`
Return2(st) == [st EXCEPT !.pc = "returned", !.rc = 2]

\* lines 400-423: the child process is terminated, the temporary directory
\* removed
StubFinish(st) ==
    [st EXCEPT !.terminated = TRUE,
               !.tmpdir = IF @ = "exists" THEN "removed" ELSE @,
               !.rc = IF st.final_ok THEN 0 ELSE 1,
               !.pc = "returned"]

\* the body of the loop the main thread is in, for the message msg
StubHandle(st, msg) ==
    CASE st.pc = "await_initialize" ->
             IF IsResult(msg, st.init_id) THEN [st EXCEPT !.pc = "w_initialized"]
             ELSE IF IsError(msg, st.init_id) THEN Return2(st)
             ELSE st
      [] st.pc = "await_newConversation" ->
             IF IsResult(msg, st.new_conv_id)
             THEN LET result == msg.d.result
                  IN  IF result.t = "obj" /\ "conversationId" \in DOMAIN result.d
                      THEN [st EXCEPT !.conversation_id = result.d.conversationId,
                                      !.pc = "w_addConversationListener"]
                      ELSE Return2(st)
             ELSE IF IsError(msg, st.new_conv_id) THEN Return2(st)
             ELSE st
      [] st.pc = "main" ->
             IF Get(msg.d, "method", PyNone) = JStr("responsesApi/call") /\ "id" \in DOMAIN msg.d
             THEN LET params == Get(msg.d, "params", JObj(EmptyDict))
                  IN  IF params.t # "obj" THEN [st EXCEPT !.pc = "raised"]
                      ELSE [st EXCEPT !.req_id = msg.d.id,
                                      !.call_id = Get(params.d, "callId", JStr("resp_stub")),
                                      !.saw_responses_call = TRUE,
                                      !.pc = "w_created"]
             ELSE IF Get(msg.d, "method", PyNone) = JStr("codex/event/task_complete")
             THEN StubFinish(st)
             ELSE IF IsResult(msg, st.send_id) THEN [st EXCEPT !.final_ok = TRUE]
             ELSE IF IsError(msg, st.send_id) THEN Return2(st)
             ELSE st

AwaitPcs == {"await_initialize", "await_newConversation", "main"}

\* rpc.recv returns a message of the queue, and the loop body handles it
StubRecv ==
    /\ stub # PyNone
    /\ stub.pc \in AwaitPcs
    /\ stub.incoming # <<>>
    /\ LET msg == Head(stub.incoming)
       IN  stub' = StubHandle([stub EXCEPT !.incoming = Tail(@),
                                           !.log = Append(@, [dir |-> "in", msg |-> msg])],
                              msg)
    /\ UNCHANGED besideStub

\* rpc.recv returns None: the queue stayed empty for the timeout
StubTimeout ==
    /\ stub # PyNone
    /\ stub.pc \in AwaitPcs
    /\ stub.incoming = <<>>
    /\ stub' = Return2(stub)
    /\ UNCHANGED besideStub

\* the server writes a line, JsonRpcIO._read_loop reads it: a line that is
\* no JSON is dropped, a message is put into the queue
ServerWrite(line) ==
    /\ stub # PyNone
    /\ stub.server = "running"
    /\ stub.written < MaxMsgs
    /\ LET msg == json_loads(line)
       IN  stub' = [stub EXCEPT !.written = @ + 1,
                                !.incoming = IF msg.ok THEN Append(@, msg.val) ELSE @]
    /\ UNCHANGED besideStub

ServerExit ==
    /\ stub # PyNone
    /\ stub.server = "running"
    /\ stub' = [stub EXCEPT !.server = "exited"]
    /\ UNCHANGED besideStub

NextStub ==
    \/ \E use_temp_home \in BOOLEAN : StubStart(use_temp_home)
    \/ StubSend
    \/ StubRecv
    \/ StubTimeout
    \/ \E line \in ServerLines : ServerWrite(line)
    \/ ServerExit

SpecStub == InitStub /\ [][NextStub]_vars

(***************************************************************************)
(* exec.py: terminate_process statement by statement, on a process that    *)
(* exits when it likes.  Popen.terminate and Popen.kill poll the process   *)
(* themselves and signal it only when it has not exited; either may raise. *)
(***************************************************************************)
\* process.poll() is None: the process, killed or not, has not exited yet
Alive(p) == p.st \in {"running", "killed"}

\* Popen.send_signal: nothing is sent to a process that has exited
Signal(p, sig) ==
    IF ~Alive(p) THEN p
    ELSE IF sig = "kill" THEN [p EXCEPT !.kill = TRUE, !.st = "killed"]
    ELSE [p EXCEPT !.term = TRUE]

\* terminate_process returned; swallowed: a kill that raised was passed over
Returned(swallowed) == [kind |-> "returned", swallowed |-> swallowed]

\* a process that was spawned, running or exited by itself, on which the
\* handlers of CodexExec.run call terminate_process
InitTerminate ==
    /\ id = PyNone
    /\ turn = 0
    /\ mode = "run"
    /\ pc = "idle"
    /\ cancel = FALSE
    /\ proc \in {[NoProc EXCEPT !.st = "running"]}
                \cup {[NoProc EXCEPT !.st = "exited", !.rc = e.rc] : e \in ExitCases}
    /\ stdin = TRUE
    /\ handles = OpenHandles
    /\ childOut = FALSE
    /\ emitted = <<>>
    /\ readPos = 0
    /\ rawLine = NoLine
    /\ stderrText = ""
    /\ innerGen = "active"
    /\ outerGen = "active"
    /\ acc = InitAcc
    /\ events = <<>>
    /\ outcome = Pending
    /\ output_schema = PyNone
    /\ schemaFile = "none"
    /\ command = CommandArgs(PyNone, PyNone)
    /\ stdinRoom = TRUE
    /\ NoBench
    /\ NoReaders
    /\ NoPure
    /\ NoLists
    /\ NoStub

besideTerminate == <<id, mode, cancel, stdin, childOut, emitted, readPos, rawLine,
                     stderrText, outerGen, acc, events, output_schema, schemaFile,
                     command, stdinRoom, besideTurn>>

\* lines 113-120: an except block calls terminate_process
TpCall ==
    /\ pc = "idle"
    /\ innerGen = "active"
    /\ turn' = turn + 1
    /\ pc' = "tp_poll"
    /\ outcome' = Pending
    /\ UNCHANGED <<proc, handles, innerGen, besideTerminate>>

\* lines 121-124: the finally block, entered from the try block or after an
\* except block, calls terminate_process when the process has not exited
TpFinally ==
    /\ pc \in {"idle", "done"}
    /\ innerGen = "active"
    /\ innerGen' = "finally"
    /\ IF Alive(proc)
       THEN /\ turn' = turn + 1
            /\ pc' = "tp_poll"
            /\ outcome' = Pending
       ELSE /\ pc' = "done"
            /\ UNCHANGED <<turn, outcome>>
    /\ UNCHANGED <<proc, handles, besideTerminate>>

\* lines 125-128: the finally block closes stdout and stderr
TpClose ==
    /\ pc = "done"
    /\ innerGen = "finally"
    /\ handles' = ClosedHandles
    /\ innerGen' = "finished"
    /\ pc' = "closed"
    /\ UNCHANGED <<proc, turn, outcome, besideTerminate>>

\* line 148, and lines 153 and 157: `if process.poll() is None`
TpPoll ==
    /\ pc \in {"tp_poll", "tp_poll_after_wait", "tp_poll_after_error"}
    /\ IF Alive(proc)
       THEN /\ pc' = CASE pc = "tp_poll" -> "tp_terminate"
                       [] pc = "tp_poll_after_wait" -> "tp_kill"
                       [] pc = "tp_poll_after_error" -> "tp_kill_after_error"
            /\ UNCHANGED outcome
       ELSE /\ pc' = "done"
            /\ outcome' = Returned(FALSE)
    /\ UNCHANGED <<proc, turn, handles, innerGen, besideTerminate>>

\* line 149: process.terminate()
TpTerminate ==
    /\ pc = "tp_terminate"
    /\ \E raises \in BOOLEAN :
          IF raises
          THEN pc' = "tp_poll_after_error" /\ UNCHANGED proc
          ELSE pc' = "tp_wait" /\ proc' = Signal(proc, "terminate")
    /\ UNCHANGED <<outcome, turn, handles, innerGen, besideTerminate>>

\* lines 150-152: process.wait(timeout=2) returns when the process has
\* exited, and raises TimeoutExpired when it has not after two seconds
TpWait ==
    /\ pc = "tp_wait"
    /\ IF Alive(proc)
       THEN pc' = "tp_poll_after_wait" /\ UNCHANGED outcome
       ELSE pc' = "done" /\ outcome' = Returned(FALSE)
    /\ UNCHANGED <<proc, turn, handles, innerGen, besideTerminate>>

\* a kill that is not sent after the wait timed out
TpKill_notAfterWait ==
    /\ pc \in {"tp_kill", "tp_kill_after_error"}
    /\ \E raises \in BOOLEAN :
          IF raises
          THEN /\ UNCHANGED proc
               /\ IF pc = "tp_kill"
                  THEN pc' = "tp_poll_after_error" /\ UNCHANGED outcome
                  ELSE pc' = "done" /\ outcome' = Returned(TRUE)
          ELSE /\ proc' = IF pc = "tp_kill" THEN proc ELSE Signal(proc, "kill")
               /\ pc' = "done"
               /\ outcome' = Returned(FALSE)
    /\ UNCHANGED <<turn, handles, innerGen, besideTerminate>>

\* lines 154 and 158: process.kill(); an exception of the first passes to
\* the outer handler, an exception of the second is passed over
TpKill ==
    /\ pc \in {"tp_kill", "tp_kill_after_error"}
    /\ \E raises \in BOOLEAN :
          IF raises
          THEN /\ UNCHANGED proc
               /\ IF pc = "tp_kill"
                  THEN pc' = "tp_poll_after_error" /\ UNCHANGED outcome
                  ELSE pc' = "done" /\ outcome' = Returned(TRUE)
          ELSE /\ proc' = Signal(proc, "kill")
               /\ pc' = "done"
               /\ outcome' = Returned(FALSE)
    /\ UNCHANGED <<turn, handles, innerGen, besideTerminate>>

\* the process exits: by itself, on the terminate signal, or killed
TpProcExit(e) ==
    /\ Alive(proc)
    /\ proc' = [proc EXCEPT !.st = "exited",
                            !.rc = IF proc.st = "killed" THEN -9
                                   ELSE IF proc.term /\ e.rc = 0 THEN -15 ELSE e.rc]
    /\ UNCHANGED <<pc, outcome, turn, handles, innerGen, besideTerminate>>

NextTerminate ==
    \/ TpCall
    \/ TpFinally
    \/ TpClose
    \/ TpPoll
    \/ TpTerminate
    \/ TpWait
    \/ TpKill
    \/ \E e \in ExitCases : TpProcExit(e)

SpecTerminate == InitTerminate /\ [][NextTerminate]_vars

(***************************************************************************)
(* Threads that are resumed: Codex.resume_thread accepts any string, and   *)
(* the subprocess announces the thread id with thread.started.             *)
(***************************************************************************)
ResumeIds == {PyNone, JStr("t0"), JStr("")}

ResumeLines ==
    {RawLine(t) : t \in
        {ThreadStartedLine("t1"),
         ThreadStartedLine("t2"),
         ThreadStartedLine(""),
         ItemLine("item.completed", AgentMessage("m1", "A")),
         TurnFailedLine("m")}}

InitResume == InitWith(ResumeIds) /\ NoBench /\ NoReaders /\ NoPure /\ NoLists /\ NoStub

SpecResume == InitResume /\ [][TurnNext(ResumeLines, {PyNone})]_vars

(***************************************************************************)
(* bench_codex_exec_non_login.py: run_case and its run_once tasks.  The    *)
(* tasks run on one event loop: a task runs from one await to the next     *)
(* without interruption.                                                   *)
(***************************************************************************)
\* a run_once task that has not run yet, or waits for the semaphore
NewTask == [pc |-> "acquire", proc |-> "none", stdout_task |-> "none", stderr_task |-> "none"]

TaskIds == 1..MaxTasks

\* run_case: the semaphore and one task for each iteration
InitBench ==
    /\ InitWith({PyNone})
    /\ concurrency \in 1..MaxConcurrency
    /\ sem = concurrency
    /\ tasks \in {[i \in 1..iterations |-> NewTask] : iterations \in 0..MaxTasks}
    /\ cancelling = FALSE
    /\ NoReaders
    /\ NoPure
    /\ NoLists
    /\ NoStub

\* Semaphore.acquire returns when the value is positive
Acquirable_always(value) == TRUE

Acquirable(value) == value > 0

\* run_once from `async with sem` to the first await inside it: the
\* semaphore is acquired and create_subprocess_exec starts the subprocess
\* (`started`), or raises and the semaphore is released at once
AcquireAndSpawn(i) ==
    /\ i \in DOMAIN tasks
    /\ ~cancelling
    /\ tasks[i].pc = "acquire"
    /\ Acquirable(sem)
    /\ \E started \in BOOLEAN :
          IF started
          THEN /\ sem' = sem - 1
               /\ tasks' = [tasks EXCEPT ![i] =
                                [pc |-> "wait", proc |-> "running",
                                 stdout_task |-> "reading", stderr_task |-> "reading"]]
          ELSE /\ tasks' = [tasks EXCEPT ![i].pc = "failed"]
               /\ UNCHANGED sem
    /\ UNCHANGED <<besideBench, concurrency, cancelling>>

\* the subprocess exits, which ends its standard output and standard error
BenchProcExit(i) ==
    /\ i \in DOMAIN tasks
    /\ tasks[i].proc = "running"
    /\ tasks' = [tasks EXCEPT ![i].proc = "exited"]
    /\ UNCHANGED <<besideBench, concurrency, sem, cancelling>>

\* read_stdout reaches the end of standard output and returns
StdoutEof(i) ==
    /\ i \in DOMAIN tasks
    /\ tasks[i].stdout_task = "reading"
    /\ tasks[i].proc = "exited"
    /\ ~cancelling
    /\ tasks' = [tasks EXCEPT ![i].stdout_task = "eof"]
    /\ UNCHANGED <<besideBench, concurrency, sem, cancelling>>

\* handle_line raises for a line that is JSON but no object (event.get):
\* read_stdout ends with the exception and reads no further
StdoutRaises(i) ==
    /\ i \in DOMAIN tasks
    /\ tasks[i].stdout_task = "reading"
    /\ ~cancelling
    /\ tasks' = [tasks EXCEPT ![i].stdout_task = "raised"]
    /\ UNCHANGED <<besideBench, concurrency, sem, cancelling>>

\* proc.stderr.read() reaches the end of standard error
StderrEof(i) ==
    /\ i \in DOMAIN tasks
    /\ tasks[i].stderr_task = "reading"
    /\ tasks[i].proc = "exited"
    /\ ~cancelling
    /\ tasks' = [tasks EXCEPT ![i].stderr_task = "eof"]
    /\ UNCHANGED <<besideBench, concurrency, sem, cancelling>>

\* `await proc.wait()` returns
AwaitWait(i) ==
    /\ i \in DOMAIN tasks
    /\ ~cancelling
    /\ tasks[i].pc = "wait"
    /\ tasks[i].proc = "exited"
    /\ tasks' = [tasks EXCEPT ![i].pc = "stderr"]
    /\ UNCHANGED <<besideBench, concurrency, sem, cancelling>>

\* `await stderr_task` returns
AwaitStderr(i) ==
    /\ i \in DOMAIN tasks
    /\ ~cancelling
    /\ tasks[i].pc = "stderr"
    /\ tasks[i].stderr_task = "eof"
    /\ tasks' = [tasks EXCEPT ![i].pc = "stdout"]
    /\ UNCHANGED <<besideBench, concurrency, sem, cancelling>>

\* `await stdout_task` returns or raises; run_once leaves `async with sem`,
\* which releases the semaphore
AwaitStdout(i) ==
    /\ i \in DOMAIN tasks
    /\ ~cancelling
    /\ tasks[i].pc = "stdout"
    /\ tasks[i].stdout_task \in {"eof", "raised"}
    /\ tasks' = [tasks EXCEPT ![i].pc =
                     IF tasks[i].stdout_task = "eof" THEN "done" ELSE "failed"]
    /\ sem' = sem + 1
    /\ UNCHANGED <<besideBench, concurrency, cancelling>>

\* asyncio.run ends (run_case raised, or the user interrupted it): every
\* task that is not finished is cancelled
CancelAll ==
    /\ tasks # <<>>
    /\ ~cancelling
    /\ cancelling' = TRUE
    /\ UNCHANGED <<besideBench, concurrency, sem, tasks>>

\* CancelledError is raised in a task at the await it is suspended at; a
\* task inside `async with sem` releases the semaphore and leaves its
\* subprocess behind
TaskCancelled(i) ==
    /\ i \in DOMAIN tasks
    /\ cancelling
    /\ tasks[i].pc \in {"acquire", "wait", "stderr", "stdout"}
    /\ tasks' = [tasks EXCEPT ![i].pc = "cancelled"]
    /\ sem' = IF tasks[i].pc = "acquire" THEN sem ELSE sem + 1
    /\ UNCHANGED <<besideBench, concurrency, cancelling>>

NextBench ==
    \/ CancelAll
    \/ \E i \in TaskIds : AcquireAndSpawn(i)
    \/ \E i \in TaskIds : BenchProcExit(i)
    \/ \E i \in TaskIds : StdoutEof(i)
    \/ \E i \in TaskIds : StdoutRaises(i)
    \/ \E i \in TaskIds : StderrEof(i)
    \/ \E i \in TaskIds : AwaitWait(i)
    \/ \E i \in TaskIds : AwaitStderr(i)
    \/ \E i \in TaskIds : AwaitStdout(i)
    \/ \E i \in TaskIds : TaskCancelled(i)

SpecBench == InitBench /\ [][NextBench]_vars

(***************************************************************************)
(* bench_codex_exec_non_login.py: read_stdout and handle_line.  Each call   *)
(* of read_stdout has its own locals, which its handle_line closes over.    *)
(***************************************************************************)
\* read_stdout, lines 87-91
NewFrame ==
    [command_start_times |-> EmptyDict, command_time |-> 0, command_count |-> 0,
     mcp_call_count |-> 0, usage |-> PyNone]

BenchItemLine(event_type, item_type, item_id) ==
    JsonText(JObj([type |-> JStr(event_type),
                   item |-> JObj([type |-> JStr(item_type), id |-> JStr(item_id)])]))

\* the lines a benchmarked subprocess may write
BenchLines ==
    {BenchItemLine("item.started", "command_execution", "c1"),
     BenchItemLine("item.completed", "command_execution", "c1"),
     BenchItemLine("item.started", "mcp_tool_call", "m1"),
     TurnCompletedLine,
     PlainText("not json")}

\* handle_line with a dict.get where the code has dict.pop
handle_line_keepsStart(f, line, ts) ==
    LET loaded == json_loads(line)
        event == loaded.val.d
        event_type == Get(event, "type", PyNone)
        usage_info == Get(event, "usage", PyNone)
        g == IF event_type = JStr("turn.completed") /\ Truthy(usage_info)
             THEN [f EXCEPT !.usage =
                      [input_tokens |-> Get(usage_info.d, "input_tokens", JInt(0)),
                       cached_input_tokens |-> Get(usage_info.d, "cached_input_tokens", JInt(0)),
                       output_tokens |-> Get(usage_info.d, "output_tokens", JInt(0))]]
             ELSE f
        item == PyOr(Get(event, "item", PyNone), JObj(EmptyDict)).d
        item_type == Get(item, "type", PyNone)
        item_id == Get(item, "id", PyNone)
        starts == g.command_start_times
    IN  IF ~loaded.ok THEN f
        ELSE IF event_type \notin {JStr("item.started"), JStr("item.updated"),
                                   JStr("item.completed")}
        THEN g
        ELSE IF item_type = JStr("command_execution")
        THEN IF event_type = JStr("item.started") /\ Truthy(item_id)
             THEN [g EXCEPT !.command_start_times = (item_id.s :> ts) @@ starts,
                            !.command_count = @ + 1]
             ELSE IF event_type = JStr("item.completed") /\ Truthy(item_id)
             THEN IF item_id.s \in DOMAIN starts
                  THEN [g EXCEPT !.command_time =
                             IF starts[item_id.s] # 0
                             THEN @ + (ts - starts[item_id.s]) ELSE @]
                  ELSE g
             ELSE g
        ELSE IF item_type = JStr("mcp_tool_call") /\ event_type = JStr("item.started")
        THEN [g EXCEPT !.mcp_call_count = @ + 1]
        ELSE g

\* handle_line, lines 94-129, for a line that is no JSON or a JSON object:
\* the locals of read_stdout after the call, given them before it (f), the
\* text of the line and the reading of the clock (ts)
handle_line(f, line, ts) ==
    LET loaded == json_loads(line)
        event == loaded.val.d
        event_type == Get(event, "type", PyNone)
        usage_info == Get(event, "usage", PyNone)
        g == IF event_type = JStr("turn.completed") /\ Truthy(usage_info)
             THEN [f EXCEPT !.usage =
                      [input_tokens |-> Get(usage_info.d, "input_tokens", JInt(0)),
                       cached_input_tokens |-> Get(usage_info.d, "cached_input_tokens", JInt(0)),
                       output_tokens |-> Get(usage_info.d, "output_tokens", JInt(0))]]
             ELSE f
        item == PyOr(Get(event, "item", PyNone), JObj(EmptyDict)).d
        item_type == Get(item, "type", PyNone)
        item_id == Get(item, "id", PyNone)
        starts == g.command_start_times
    IN  IF ~loaded.ok THEN f
        ELSE IF event_type \notin {JStr("item.started"), JStr("item.updated"),
                                   JStr("item.completed")}
        THEN g
        ELSE IF item_type = JStr("command_execution")
        THEN IF event_type = JStr("item.started") /\ Truthy(item_id)
             THEN [g EXCEPT !.command_start_times = (item_id.s :> ts) @@ starts,
                            !.command_count = @ + 1]
             ELSE IF event_type = JStr("item.completed") /\ Truthy(item_id)
             THEN IF item_id.s \in DOMAIN starts
                  THEN [g EXCEPT !.command_start_times =
                                     [k \in DOMAIN starts \ {item_id.s} |-> starts[k]],
                                 !.command_time =
                                     IF starts[item_id.s] # 0
                                     THEN @ + (ts - starts[item_id.s]) ELSE @]
                  ELSE g
             ELSE g
        ELSE IF item_type = JStr("mcp_tool_call") /\ event_type = JStr("item.started")
        THEN [g EXCEPT !.mcp_call_count = @ + 1]
        ELSE g

\* the frame whose locals the handle_line of task i reads and writes: that of
\* the read_stdout call of task i (the closure is made in each call)
Frame_ofFirstTask(i) == 1

Frame(i) == i

\* run_case with two iterations that the limit allows to run together: a
\* run and another run
InitReaders ==
    /\ InitWith({PyNone})
    /\ NoPure
    /\ NoLists
    /\ NoStub
    /\ concurrency = MaxConcurrency
    /\ sem = concurrency
    /\ tasks = <<NewTask, NewTask>>
    /\ cancelling = FALSE
    /\ readers = [i \in DOMAIN tasks |->
                     [locals |-> NewFrame, raw_line |-> PlainText(""), n |-> 0]]
    /\ clock = 1

\* read_stdout of task i gets a line from its subprocess and handles it
HandleLine(i, l) ==
    /\ i \in DOMAIN tasks
    /\ ~cancelling
    /\ tasks[i].stdout_task = "reading"
    /\ tasks[i].proc = "running"
    /\ readers[i].n < MaxLines
    /\ readers' = [readers EXCEPT
                      ![i].raw_line = l,
                      ![i].n = @ + 1,
                      ![Frame(i)].locals = handle_line(readers[Frame(i)].locals, l, clock)]
    /\ UNCHANGED <<turnVars, benchVars, pureVars, lists, stub, clock>>

\* time passes
Tick ==
    /\ readers # <<>>
    /\ clock <= MaxClock
    /\ clock' = clock + 1
    /\ UNCHANGED <<turnVars, benchVars, pureVars, lists, stub, readers>>

\* the runs from their start to the return of read_stdout
NextReaders ==
    \/ \E i \in TaskIds : AcquireAndSpawn(i)
    \/ \E i \in TaskIds, l \in BenchLines : HandleLine(i, l)
    \/ Tick
    \/ \E i \in TaskIds : BenchProcExit(i)
    \/ \E i \in TaskIds : StdoutEof(i)

SpecReaders == InitReaders /\ [][NextReaders]_vars

(***************************************************************************)
(* One read_stdout taken alone: the lines its subprocess has written are   *)
(* kept in arg, the locals of read_stdout in ret.                          *)
(***************************************************************************)
CommandIds == {"c1", "c2"}

\* the lines a benchmarked subprocess may write, among them items without
\* an id and turn.completed events without usage
AccountLines ==
    {BenchItemLine("item.started", "command_execution", i) : i \in CommandIds \cup {""}}
    \cup {BenchItemLine("item.completed", "command_execution", i) : i \in CommandIds}
    \cup {BenchItemLine("item.started", "mcp_tool_call", "m1"),
          BenchItemLine("item.completed", "mcp_tool_call", "m1"),
          TurnCompletedLine,
          TurnCompletedWith(JObj([input_tokens |-> JInt(7), output_tokens |-> JInt(1)])),
          TurnCompletedWith(PyNone),
          PlainText("not json"),
          PlainText("")}

InitAccounting ==
    /\ InitWith({PyNone})
    /\ NoBench
    /\ NoReaders
    /\ NoLists
    /\ NoStub
    /\ arg = [lines |-> <<>>]
    /\ ret = NewFrame

\* lines 94-129: the next line of the subprocess is handled
AccountLine(l) ==
    /\ Len(arg.lines) <= MaxLines
    /\ arg' = [lines |-> Append(arg.lines, l)]
    /\ ret' = handle_line(ret, l, clock)
    /\ UNCHANGED <<turnVars, benchVars, readers, clock, lists, stub>>

\* line 96: time.perf_counter() has moved on
AccountTick ==
    /\ clock <= MaxClock
    /\ clock' = clock + 1
    /\ UNCHANGED <<turnVars, benchVars, readers, pureVars, lists, stub>>

NextAccounting ==
    \/ \E l \in AccountLines : AccountLine(l)
    \/ AccountTick

SpecAccounting == InitAccounting /\ [][NextAccounting]_vars

(***************************************************************************)
(* The read loop of read_stdout, lines 131-147.  The output of the         *)
(* subprocess is a sequence of bytes: a byte is a newline or a piece of    *)
(* the text of a line, and a line that is not empty has two pieces, so     *)
(* that a chunk may end inside it.                                         *)
(***************************************************************************)
NL == [nl |-> TRUE]
Piece(l, k) == [line |-> l, part |-> k]
Bytes(l) == IF l = PlainText("") THEN <<>> ELSE <<Piece(l, 1), Piece(l, 2)>>

ChunkLines == BenchLines \cup {PlainText("")}

\* what the subprocess wrote: `lines`, each followed by a newline; when
\* `cut` the subprocess stopped inside the last one, when ~newline after it
RECURSIVE Written(_, _, _)
Written(lines, newline, cut) ==
    IF lines = <<>> THEN <<>>
    ELSE IF Len(lines) = 1
    THEN IF cut THEN <<Piece(lines[1], 1)>>
         ELSE IF newline THEN Bytes(lines[1]) \o <<NL>>
         ELSE Bytes(lines[1])
    ELSE Bytes(Head(lines)) \o <<NL>> \o Written(Tail(lines), newline, cut)

Outputs ==
    {[lines |-> ls, newline |-> nl, cut |-> c, output |-> Written(ls, nl, c)] :
        ls \in UNION {[1..n -> ChunkLines] : n \in 0..MaxLines}, nl \in BOOLEAN, c \in BOOLEAN}

\* line 97: raw_line.decode(errors="replace").strip(); a line of which only
\* a part arrived is text that is no JSON
decode(raw) ==
    IF raw = <<>> THEN PlainText("")
    ELSE IF Len(raw) = 2 /\ raw = Bytes(raw[1].line) THEN raw[1].line
    ELSE PlainText("torn")

\* buffer.split(b"\n")
RECURSIVE split(_)
split(buffer) ==
    IF buffer = <<>> THEN << <<>> >>
    ELSE LET rest == split(Tail(buffer))
         IN  IF Head(buffer) = NL THEN << <<>> >> \o rest
             ELSE << <<Head(buffer)>> \o Head(rest) >> \o Tail(rest)

\* lines 140-141: for raw_line in lines: handle_line(raw_line)
RECURSIVE HandleAll(_, _, _)
HandleAll(f, raws, ts) ==
    IF raws = <<>> THEN f
    ELSE HandleAll(handle_line(f, decode(Head(raws)), ts), Tail(raws), ts)

\* lines 86-92 and 131: the locals of read_stdout before its loop; an output
\* that a cut line or a missing newline ends has a last line that is not empty
InitChunks ==
    /\ InitWith({PyNone})
    /\ NoBench
    /\ NoReaders
    /\ NoLists
    /\ NoStub
    /\ arg \in {o \in Outputs :
                  /\ (o.lines = <<>>) => (o.newline /\ ~o.cut)
                  /\ o.cut => ~o.newline
                  /\ ~o.newline => o.lines[Len(o.lines)] # PlainText("")}
    /\ ret = [locals |-> NewFrame, buffer |-> <<>>, pos |-> 0, handled |-> <<>>,
              pc |-> "read"]

\* lines 134-141: proc.stdout.read(4096) returns n bytes, which are split
ReadChunk(n) ==
    /\ ret.pc = "read"
    /\ n \in 1..(Len(arg.output) - ret.pos)
    /\ LET chunk == SubSeq(arg.output, ret.pos + 1, ret.pos + n)
           lines == split(ret.buffer \o chunk)
           whole == SubSeq(lines, 1, Len(lines) - 1)
       IN  ret' = [ret EXCEPT !.pos = @ + n,
                              !.buffer = lines[Len(lines)],
                              !.handled = @ \o whole,
                              !.locals = HandleAll(@, whole, clock)]
    /\ UNCHANGED <<turnVars, benchVars, readerVars, lists, stub, arg>>

\* the loop is left and nothing is done with what is in the buffer
ReadEof_dropsBuffer ==
    /\ ret.pc = "read"
    /\ ret.pos = Len(arg.output)
    /\ ret' = [ret EXCEPT !.pc = "returned"]
    /\ UNCHANGED <<turnVars, benchVars, readerVars, lists, stub, arg>>

\* lines 135-136 and 145-147: read returns b"" at the end of the stream;
\* the finally block handles what is left in the buffer
ReadEof ==
    /\ ret.pc = "read"
    /\ ret.pos = Len(arg.output)
    /\ ret' = IF ret.buffer # <<>>
              THEN [ret EXCEPT !.pc = "returned",
                               !.handled = Append(@, ret.buffer),
                               !.locals = handle_line(@, decode(ret.buffer), clock)]
              ELSE [ret EXCEPT !.pc = "returned"]
    /\ UNCHANGED <<turnVars, benchVars, readerVars, lists, stub, arg>>

NextChunks ==
    \/ \E n \in 1..(3 * MaxLines) : ReadChunk(n)
    \/ ReadEof

SpecChunks == InitChunks /\ [][NextChunks]_vars

(***************************************************************************)
(* exec.py lines 84-112 with the three pipes of the subprocess.  A pipe    *)
(* holds MaxPipe units; a writer to a full pipe waits.  arg is what the    *)
(* turn is made of: the size of the prompt, what the subprocess writes to  *)
(* its standard error and standard output, when it reads its standard      *)
(* input, and its exit code.  ret is the pipes and how far both sides are. *)
(***************************************************************************)
ChildKinds == {"reads_first", "writes_first", "never_reads"}

PipeCases ==
    [prompt : 0..(MaxPipe + 1), stderr : 0..(MaxPipe + 1), stdout : 0..(MaxPipe + 1),
     child : ChildKinds, rc : {e.rc : e \in ExitCases}]

InitPipes ==
    /\ InitWith({PyNone})
    /\ NoBench
    /\ NoReaders
    /\ NoLists
    /\ NoStub
    /\ arg \in PipeCases
    /\ ret = [sent |-> 0, stdin_pipe |-> 0, stdin_closed |-> FALSE, stdin_eof |-> FALSE,
              err_left |-> arg.stderr, err_pipe |-> 0,
              out_left |-> arg.stdout, out_pipe |-> 0, out_closed |-> FALSE]

besidePipes == <<id, turn, mode, cancel, stdin, handles, childOut, emitted, readPos, rawLine,
                 stderrText, innerGen, outerGen, acc, events, output_schema, schemaFile,
                 command, stdinRoom, benchVars, readerVars, lists, stub, arg>>

\* lines 84-94: Popen
PipeSpawn ==
    /\ pc = "idle"
    /\ pc' = "spawned"
    /\ proc' = [NoProc EXCEPT !.st = "running"]
    /\ UNCHANGED <<outcome, ret, besidePipes>>

\* line 96: process.stdin.write(args.input) goes on as the pipe has room, and
\* raises BrokenPipeError when the subprocess has exited
PipeWrite ==
    /\ pc = "spawned"
    /\ ret.sent < arg.prompt
    /\ IF proc.st = "exited"
       THEN /\ pc' = "done"
            /\ outcome' = Raise("BrokenPipeError", <<>>)
            /\ UNCHANGED ret
       ELSE /\ ret.stdin_pipe < MaxPipe
            /\ ret' = [ret EXCEPT !.sent = @ + 1, !.stdin_pipe = @ + 1]
            /\ UNCHANGED <<pc, outcome>>
    /\ UNCHANGED <<proc, besidePipes>>

\* line 97: process.stdin.close()
PipeClose ==
    /\ pc = "spawned"
    /\ ret.sent = arg.prompt
    /\ ret' = [ret EXCEPT !.stdin_closed = TRUE]
    /\ pc' = "read"
    /\ UNCHANGED <<proc, outcome, besidePipes>>

\* lines 102-104: for raw_line in process.stdout
PipeReadLine ==
    /\ pc = "read"
    /\ IF ret.out_pipe > 0
       THEN /\ ret' = [ret EXCEPT !.out_pipe = @ - 1]
            /\ UNCHANGED pc
       ELSE /\ ret.out_closed
            /\ pc' = "wait"
            /\ UNCHANGED ret
    /\ UNCHANGED <<proc, outcome, besidePipes>>

\* lines 106-112: process.wait(); standard error is read only now, and only
\* when the exit code is not zero
PipeWait ==
    /\ pc = "wait"
    /\ proc.st = "exited"
    /\ pc' = "done"
    /\ IF proc.rc # 0
       THEN /\ outcome' = Raise("RuntimeError", <<>>)
            /\ ret' = [ret EXCEPT !.err_pipe = 0]
       ELSE /\ outcome' = Result(<<>>, "", PyNone)
            /\ UNCHANGED ret
    /\ UNCHANGED <<proc, besidePipes>>

\* what the subprocess has to do before it writes: read its standard input
\* to the end, when it is one that reads first
ChildMayWrite == arg.child = "reads_first" => ret.stdin_eof

\* what it has to do before it reads: write all it writes, when it is one
\* that writes first
ChildMayRead ==
    CASE arg.child = "reads_first" -> TRUE
      [] arg.child = "writes_first" -> ret.err_left = 0 /\ ret.out_left = 0
      [] arg.child = "never_reads" -> FALSE

\* the subprocess reads its standard input
ChildRead ==
    /\ proc.st = "running"
    /\ ChildMayRead
    /\ ~ret.stdin_eof
    /\ IF ret.stdin_pipe > 0
       THEN ret' = [ret EXCEPT !.stdin_pipe = @ - 1]
       ELSE /\ ret.stdin_closed
            /\ ret' = [ret EXCEPT !.stdin_eof = TRUE]
    /\ UNCHANGED <<pc, proc, outcome, besidePipes>>

\* the subprocess writes to its standard error, which nobody reads while it
\* runs
ChildWriteStderr ==
    /\ proc.st = "running"
    /\ ChildMayWrite
    /\ ret.err_left > 0
    /\ ret.err_pipe < MaxPipe
    /\ ret' = [ret EXCEPT !.err_left = @ - 1, !.err_pipe = @ + 1]
    /\ UNCHANGED <<pc, proc, outcome, besidePipes>>

\* the subprocess writes a line to its standard output
ChildWriteStdout ==
    /\ proc.st = "running"
    /\ ChildMayWrite
    /\ ret.out_left > 0
    /\ ret.out_pipe < MaxPipe
    /\ ret' = [ret EXCEPT !.out_left = @ - 1, !.out_pipe = @ + 1]
    /\ UNCHANGED <<pc, proc, outcome, besidePipes>>

\* the subprocess, having done all it does, closes its standard output and
\* exits
ChildExit ==
    /\ proc.st = "running"
    /\ ret.err_left = 0
    /\ ret.out_left = 0
    /\ arg.child = "never_reads" \/ ret.stdin_eof
    /\ proc' = [proc EXCEPT !.st = "exited", !.rc = arg.rc]
    /\ ret' = [ret EXCEPT !.out_closed = TRUE]
    /\ UNCHANGED <<pc, outcome, besidePipes>>

PipeParent == PipeSpawn \/ PipeWrite \/ PipeClose \/ PipeReadLine \/ PipeWait

PipeChild == ChildRead \/ ChildWriteStderr \/ ChildWriteStdout \/ ChildExit

NextPipes ==
    \/ PipeSpawn
    \/ PipeWrite
    \/ PipeClose
    \/ PipeReadLine
    \/ PipeWait
    \/ ChildRead
    \/ ChildWriteStderr
    \/ ChildWriteStdout
    \/ ChildExit

\* the thread of the caller goes on when it can, and so does the subprocess
\* whenever it does not wait for room in a pipe
SpecPipes ==
    /\ InitPipes
    /\ [][NextPipes]_vars
    /\ WF_vars(PipeParent)
    /\ WF_vars(PipeChild)

(***************************************************************************)
(* patch_third_party_buck_for_tests.py.  A text is its lines, each without *)
(* its newline, and whether the last line ends in a newline (nl); the      *)
(* empty text has nl.  The lines are those of Reindeer's rules and of the  *)
(* overlay.                                                                *)
(***************************************************************************)
BEGIN_MARKER == "# BEGIN CODEX LOCAL DEV TEST DEPS (generated)"
END_MARKER == "# END CODEX LOCAL DEV TEST DEPS (generated)"
similar_rule_name == "similar-2.7.0"

RuleNames == {similar_rule_name, "other-1.0.0", "insta-1.43.1"}
NameLine(n) ==
    CASE n = similar_rule_name -> "    name = \"similar-2.7.0\","
      [] n = "other-1.0.0" -> "    name = \"other-1.0.0\","
      [] n = "insta-1.43.1" -> "    name = \"insta-1.43.1\","
InlineItem == "        \"inline\","
FeaturesInline == "    features = [\"inline\"],"
VisibilityLine == "    visibility = [],"

BuckText(lines, nl) == [lines |-> lines, nl |-> nl \/ lines = <<>>]

\* "name" in line and similar_rule_name in line
NamesSimilar(line) == line = NameLine(similar_rule_name)
\* line.strip() == ")"
ClosesRule(line) == line = ")"
\* l.strip() == '"inline",'
IsInlineItem(line) == line = InlineItem
\* bl.lstrip().startswith("features = [")
StartsFeatures(line) == line \in {"    features = [", FeaturesInline}
\* bl.lstrip().startswith("visibility =")
StartsVisibility(line) == line = VisibilityLine

\* the first index from `from` on of a line that is P, or 0
RECURSIVE IndexOf(_, _, _)
IndexOf(lines, P(_), from) ==
    IF from > Len(lines) THEN 0
    ELSE IF P(lines[from]) THEN from
    ELSE IndexOf(lines, P, from + 1)

InsertAt(lines, k, line) ==
    SubSeq(lines, 1, k - 1) \o <<line>> \o SubSeq(lines, k, Len(lines))

\* lines 163-206
patch_reindeer_output_for_test_features(text) ==
    LET lines == text.lines
        i == IndexOf(lines, NamesSimilar, 1)
        j == IndexOf(lines, ClosesRule, i)
        block == SubSeq(lines, i, j)
        f == IndexOf(block, StartsFeatures, 1)
        v == IndexOf(block, StartsVisibility, 1)
    IN  IF i = 0 \/ j = 0 THEN text
        ELSE IF IndexOf(block, IsInlineItem, 1) # 0 THEN text
        ELSE IF f # 0 THEN [text EXCEPT !.lines = InsertAt(lines, i + f, InlineItem)]
        ELSE IF v # 0 THEN [text EXCEPT !.lines = InsertAt(lines, i + v - 1, FeaturesInline)]
        ELSE text

\* text.find(BEGIN_MARKER), text.find(END_MARKER, start): the markers end in
\* a newline
MarkerAt(text, marker, from) ==
    LET IsMarker(line) == line = marker
        k == IndexOf(text.lines, IsMarker, from)
    IN  IF k = Len(text.lines) /\ ~text.nl THEN 0 ELSE k

\* lines 152-160
strip_existing_overlay(text) ==
    LET start == MarkerAt(text, BEGIN_MARKER, 1)
        end == MarkerAt(text, END_MARKER, start)
    IN  IF start = 0 THEN Ok(text)
        ELSE IF end = 0 THEN Err("SystemExit")
        ELSE Ok(BuckText(SubSeq(text.lines, 1, start - 1)
                            \o SubSeq(text.lines, end + 1, Len(text.lines)),
                         IF end = Len(text.lines) THEN TRUE ELSE text.nl))

\* lines 209-214
present_target_names(text) ==
    {n \in RuleNames : \E k \in DOMAIN text.lines : text.lines[k] = NameLine(n)}

\* cargo metadata: the registry packages that workspace members have as
\* dev-dependencies, and the normal dependencies of the registry packages
Metas ==
    {[dev |-> {}, normal |-> [n \in RuleNames |-> {}]],
     [dev |-> {"insta-1.43.1"},
      normal |-> [n \in RuleNames |->
                     IF n = "insta-1.43.1" THEN {similar_rule_name} ELSE {}]]}

\* lines 263-286: the missing packages and those they need that are missing
RECURSIVE WithNormalDeps(_, _, _)
WithNormalDeps(meta, existing_targets, to_add) ==
    LET more == {d \in RuleNames : /\ \E n \in to_add : d \in meta.normal[n]
                                   /\ d \notin existing_targets
                                   /\ d \notin to_add}
    IN  IF more = {} THEN to_add
        ELSE WithNormalDeps(meta, existing_targets, to_add \cup more)

\* sorted(to_add, ...) for the three names there are
SortedNames(names) ==
    SelectSeq(<<"insta-1.43.1", "other-1.0.0", similar_rule_name>>, LAMBDA n : n \in names)

\* lines 454-478: the rule of a missing package, and the empty line after it
OverlayRule(n) ==
    <<"codex_rust_library(", NameLine(n), "    srcs = [\"vendor/src/lib.rs\"],",
      VisibilityLine, ")", "">>

RECURSIVE OverlayRules(_)
OverlayRules(names) ==
    IF names = <<>> THEN <<>> ELSE OverlayRule(Head(names)) \o OverlayRules(Tail(names))

\* lines 229-481: existing_buck + "\n".join(lines), where the first of the
\* lines is "\n" and the marker: the newline ends the last line of
\* existing_buck when that has none, and is an empty line otherwise
append_overlay(meta, existing_buck) ==
    LET existing_targets == present_target_names(existing_buck)
        to_add == WithNormalDeps(meta, existing_targets, meta.dev \ existing_targets)
        first == IF existing_buck.nl THEN <<"">> ELSE <<>>
    IN  IF to_add = {} THEN existing_buck
        ELSE BuckText(existing_buck.lines \o first
                         \o <<BEGIN_MARKER,
                              "# This section is appended by codex-rs/scripts/patch_third_party_buck_for_tests.py",
                              "# to make Buck rust_test() targets usable for first-party dev-deps.",
                              "">>
                         \o OverlayRules(SortedNames(to_add))
                         \o <<END_MARKER>>,
                      TRUE)

\* the rules that Reindeer writes, with and without a list of features
FeatureLists ==
    {<<>>,
     <<"    features = [", "        \"std\",", "    ],">>,
     <<"    features = [", InlineItem, "        \"std\",", "    ],">>}

ReindeerRules ==
    {<<"cargo.rust_library(", NameLine(n)>> \o fs \o vis \o <<")">> :
        n \in {similar_rule_name, "other-1.0.0"}, fs \in FeatureLists,
        vis \in {<<>>, <<VisibilityLine>>}}

RECURSIVE Flatten(_)
Flatten(blocks) == IF blocks = <<>> THEN <<>> ELSE Head(blocks) \o Flatten(Tail(blocks))

ReindeerTexts ==
    {BuckText(Flatten(rs), nl) :
        rs \in UNION {[1..n -> ReindeerRules] : n \in 0..MaxEntries}, nl \in BOOLEAN}

\* third-party/BUCK as `reindeer buckify` left it, and cargo metadata
InitBuck ==
    /\ InitWith({PyNone})
    /\ NoBench
    /\ NoReaders
    /\ NoLists
    /\ NoStub
    /\ arg \in [text : ReindeerTexts, meta : Metas]
    /\ ret = [file |-> arg.text, runs |-> 0, patched |-> <<>>]

\* patch_reindeer_output_for_test_features on the text, and then on what it
\* returned
PatchText ==
    /\ Len(ret.patched) < MaxTurns
    /\ ret' = [ret EXCEPT !.patched =
                  Append(@, patch_reindeer_output_for_test_features(
                                IF @ = <<>> THEN arg.text ELSE @[Len(@)]))]
    /\ UNCHANGED <<turnVars, benchVars, readerVars, lists, stub, arg>>

\* lines 484-506: main, without buildifier
BuckMain ==
    /\ ret.runs < MaxTurns
    /\ LET stripped == strip_existing_overlay(ret.file)
           existing == patch_reindeer_output_for_test_features(stripped.val)
           patched == append_overlay(arg.meta, existing)
       IN  ret' = [ret EXCEPT !.runs = @ + 1,
                              !.file = IF stripped.ok /\ patched # existing
                                       THEN patched ELSE @]
    /\ UNCHANGED <<turnVars, benchVars, readerVars, lists, stub, arg>>

NextBuck == PatchText \/ BuckMain

SpecBuck == InitBuck /\ [][NextBuck]_vars

(***************************************************************************)
(* gen_reindeer_fixups.py: reindeer_reachable_package_ids, one turn of its *)
(* loop at a time, on cargo metadata of three packages.                    *)
(***************************************************************************)
PackageIds == {"w", "a", "b"}
EdgePairs == {<<"w", "a">>, <<"w", "b">>, <<"a", "b">>, <<"b", "a">>, <<"a", "w">>}

\* the dep_kinds of a dependency, by their "kind"; Absent: no dependency
Absent == <<"absent">>
KindLists == {<<>>, <<"dev">>, <<"normal">>, <<"dev", "normal">>}

\* node["deps"] of package s, where e gives the kinds of each dependency
DepsOf(e, s) ==
    Flatten([k \in 1..3 |->
                LET t == <<"a", "b", "w">>[k]
                IN  IF <<s, t>> \in EdgePairs /\ e[<<s, t>>] # Absent
                    THEN <<[pkg |-> t, dep_kinds |-> e[<<s, t>>]]>>
                    ELSE <<>>])

\* cargo metadata: the workspace members and resolve.nodes, which may lack
\* the node of b
Metadata ==
    {[workspace_members |-> roots,
      nodes |-> [s \in ids |-> DepsOf(e, s)]] :
        roots \in {<<>>, <<"w">>, <<"w", "a">>},
        ids \in {PackageIds, PackageIds \ {"b"}},
        e \in [EdgePairs -> KindLists \cup {Absent}]}

\* line 77 with a test that any of the kinds is dev
SkipsDep_anyDev(kinds) == \E k \in DOMAIN kinds : kinds[k] = "dev"

\* line 77: kinds and all(k.get("kind") == "dev" for k in kinds)
SkipsDep(kinds) == kinds # <<>> /\ \A k \in DOMAIN kinds : kinds[k] = "dev"

\* lines 58-64
InitReach ==
    /\ InitWith({PyNone})
    /\ NoBench
    /\ NoReaders
    /\ NoLists
    /\ NoStub
    /\ arg \in Metadata
    /\ ret = [pc |-> "loop", reachable |-> {}, stack |-> arg.workspace_members]

\* lines 75-79: the dependencies that are pushed
RECURSIVE Pushed(_)
Pushed(deps) ==
    IF deps = <<>> THEN <<>>
    ELSE (IF SkipsDep(Head(deps).dep_kinds) THEN <<>> ELSE <<Head(deps).pkg>>)
         \o Pushed(Tail(deps))

\* lines 65-79: one turn of `while stack`
ReachPop ==
    /\ ret.pc = "loop"
    /\ ret.stack # <<>>
    /\ LET pkg_id == ret.stack[Len(ret.stack)]
           rest == SubSeq(ret.stack, 1, Len(ret.stack) - 1)
       IN  ret' = IF pkg_id \in ret.reachable
                  THEN [ret EXCEPT !.stack = rest]
                  ELSE [ret EXCEPT !.reachable = @ \cup {pkg_id},
                                   !.stack = IF pkg_id \in DOMAIN arg.nodes
                                             THEN rest \o Pushed(arg.nodes[pkg_id])
                                             ELSE rest]
    /\ UNCHANGED <<turnVars, benchVars, readerVars, lists, stub, arg>>

\* lines 65 and 81: the stack is empty
ReachReturn ==
    /\ ret.pc = "loop"
    /\ ret.stack = <<>>
    /\ ret' = [ret EXCEPT !.pc = "returned"]
    /\ UNCHANGED <<turnVars, benchVars, readerVars, lists, stub, arg>>

NextReach == ReachPop \/ ReachReturn

\* the loop goes on while it can
SpecReach == InitReach /\ [][NextReach]_vars /\ WF_vars(NextReach)

(***************************************************************************)
(* types.py taken alone: an item is encoded to its wire shape and decoded,  *)
(* or a payload that no encoder of this SDK produced is decoded.           *)
(***************************************************************************)
ItemIds == {"i1", ""}

\* values of the eight ThreadItem dataclasses
ItemValues ==
    {[id |-> i, type |-> ty, text |-> x] :
        i \in ItemIds, ty \in {"agent_message", "reasoning"}, x \in {"A", ""}}
    \cup {[id |-> i, type |-> "command_execution", command |-> "ls",
           aggregated_output |-> o, exit_code |-> e, status |-> "completed"] :
             i \in ItemIds, o \in {"out", ""}, e \in {PyNone, JInt(0), JInt(1)}}
    \cup {[id |-> i, type |-> "file_change", changes |-> c, status |-> "completed"] :
             i \in ItemIds,
             c \in {<<>>, <<[path |-> "a", kind |-> "add"]>>,
                    <<[path |-> "a", kind |-> "add"], [path |-> "b", kind |-> "delete"]>>}}
    \cup {[id |-> i, type |-> "mcp_tool_call", server |-> "s", tool |-> "t",
           arguments |-> a, status |-> "completed", result |-> r, error |-> e] :
             i \in ItemIds,
             a \in {PyNone, JObj([q |-> JInt(1)])},
             r \in {PyNone,
                    [t |-> "McpToolCallResult", content |-> JArr(<<>>),
                     structured_content |-> PyNone],
                    [t |-> "McpToolCallResult",
                     content |-> JArr(<<JObj([type |-> JStr("text")])>>),
                     structured_content |-> JInt(1)]},
             e \in {PyNone, [t |-> "McpToolCallError", message |-> "bad"]}}
    \cup {[id |-> i, type |-> "web_search", query |-> q] : i \in ItemIds, q \in {"q", ""}}
    \cup {[id |-> i, type |-> "todo_list", items |-> l] :
             i \in ItemIds,
             l \in {<<>>, <<[text |-> "x", completed |-> TRUE]>>,
                    <<[text |-> "x", completed |-> FALSE], [text |-> "y", completed |-> TRUE]>>}}
    \cup {[id |-> i, type |-> "error", message |-> x] : i \in ItemIds, x \in {"m", ""}}

\* a field that is None is written as null, or left out when `omit`
Optional(d, k, v, omit) == IF v = PyNone /\ omit THEN d ELSE d @@ (k :> v)

\* the wire shape of an item: a JSON object with one member for each field
encode_item(item, omit) ==
    LET base == [type |-> JStr(item.type), id |-> JStr(item.id)]
    IN  JObj(
        CASE item.type \in {"agent_message", "reasoning"} ->
               base @@ [text |-> JStr(item.text)]
          [] item.type = "command_execution" ->
               Optional(base @@ [command |-> JStr(item.command),
                                 aggregated_output |-> JStr(item.aggregated_output),
                                 status |-> JStr(item.status)],
                        "exit_code", item.exit_code, omit)
          [] item.type = "file_change" ->
               base @@ [changes |-> JArr([n \in DOMAIN item.changes |->
                                            JObj([path |-> JStr(item.changes[n].path),
                                                  kind |-> JStr(item.changes[n].kind)])]),
                        status |-> JStr(item.status)]
          [] item.type = "mcp_tool_call" ->
               Optional(
                 Optional(base @@ [server |-> JStr(item.server), tool |-> JStr(item.tool),
                                   arguments |-> item.arguments, status |-> JStr(item.status)],
                          "result",
                          IF item.result = PyNone THEN PyNone
                          ELSE JObj([content |-> item.result.content,
                                     structured_content |-> item.result.structured_content]),
                          omit),
                 "error",
                 IF item.error = PyNone THEN PyNone
                 ELSE JObj([message |-> JStr(item.error.message)]),
                 omit)
          [] item.type = "web_search" -> base @@ [query |-> JStr(item.query)]
          [] item.type = "todo_list" ->
               base @@ [items |-> JArr([n \in DOMAIN item.items |->
                                          JObj([text |-> JStr(item.items[n].text),
                                                completed |-> JBool(item.items[n].completed)])])]
          [] item.type = "error" -> base @@ [message |-> JStr(item.message)])

\* item payloads as another producer may write them: members left out or null
ItemPayloads ==
    {JObj([type |-> JStr(ty), text |-> JStr("A")]) :
        ty \in {"agent_message", "reasoning"}}
    \cup {JObj([type |-> JStr("command_execution"), command |-> JStr("ls")]),
          JObj([type |-> JStr("file_change")]),
          JObj([type |-> JStr("mcp_tool_call"), result |-> JStr("r")]),
          JObj([type |-> JStr("web_search"), query |-> JStr("q")]),
          JObj([type |-> JStr("todo_list"), items |-> PyNone]),
          JObj([type |-> JStr("error"), message |-> JStr("m")]),
          JObj([type |-> JStr("agent_message"), id |-> PyNone, text |-> JStr("A")]),
          JObj([type |-> JStr("agent_message"), id |-> JInt(7), text |-> JStr("A")]),
          JObj([id |-> JStr("i1"), text |-> JStr("A")]),
          JObj([type |-> JStr("bogus"), id |-> JStr("i1")]),
          JObj([type |-> PyNone, id |-> JStr("i1")])}

UsageFields == {"input_tokens", "cached_input_tokens", "output_tokens"}

\* turn.completed events whose usage is left out, null, or an object in which
\* each count is left out, null or a number; item events whose item has no
\* type, an unknown type, or a known one
EventPayloads ==
    {JsonText(JObj([type |-> JStr("turn.completed")])),
     JsonText(JObj([type |-> JStr("turn.completed"), usage |-> PyNone]))}
    \cup {JsonText(JObj([type |-> JStr("turn.completed"),
                          usage |-> JObj([f \in fs |-> v[f]])])) :
            fs \in SUBSET UsageFields,
            v \in [UsageFields -> {PyNone, JInt(0), JInt(7)}]}
    \cup {ItemLine(ty, w) :
            ty \in {"item.started", "item.updated", "item.completed"},
            w \in {JObj([id |-> JStr("i1"), text |-> JStr("A")]),
                   JObj([type |-> JStr("bogus"), id |-> JStr("i1")]),
                   JObj([type |-> PyNone, id |-> JStr("i1")]),
                   JObj([type |-> JStr("agent_message"), id |-> JStr("i1"),
                         text |-> JStr("A")])}}

InitCodec ==
    /\ InitWith({PyNone})
    /\ NoBench
    /\ NoReaders
    /\ NoLists
    /\ NoStub
    /\ arg \in {[item |-> v] : v \in ItemValues}
               \cup {[wire |-> w] : w \in ItemPayloads}
               \cup {[payload |-> e] : e \in EventPayloads}
    /\ ret = <<>>

\* the producer writes the item of `arg` in its wire shape
EncodeItem ==
    /\ "item" \in DOMAIN arg
    /\ ret = <<>>
    /\ \E omit \in BOOLEAN : ret' = <<encode_item(arg.item, omit)>>
    /\ UNCHANGED <<turnVars, benchVars, readerVars, lists, stub, arg>>

\* parse_thread_item is applied to the wire shape
DecodeItem ==
    /\ \/ /\ "item" \in DOMAIN arg
          /\ Len(ret) = 1
          /\ ret' = Append(ret, parse_thread_item(ret[1]))
       \/ /\ "wire" \in DOMAIN arg
          /\ ret = <<>>
          /\ ret' = <<arg.wire, parse_thread_item(arg.wire)>>
    /\ UNCHANGED <<turnVars, benchVars, readerVars, lists, stub, arg>>

\* parse_thread_event is applied to the text of an event
DecodeEvent ==
    /\ "payload" \in DOMAIN arg
    /\ ret = <<>>
    /\ ret' = <<arg.payload, parse_thread_event(arg.payload)>>
    /\ UNCHANGED <<turnVars, benchVars, readerVars, lists, stub, arg>>

NextCodec == EncodeItem \/ DecodeItem \/ DecodeEvent

SpecCodec == InitCodec /\ [][NextCodec]_vars

(***************************************************************************)
(* exec.py and thread.py taken alone: what the subprocess of a turn is     *)
(* spawned with.                                                           *)
(***************************************************************************)
INTERNAL_ORIGINATOR_ENV == "CODEX_INTERNAL_ORIGINATOR_OVERRIDE"
PYTHON_SDK_ORIGINATOR == "codex_sdk_py"

\* CodexExec._build_env; `environ` is os.environ
build_env_inherits(env_override, environ, base_url, api_key) ==
    LET e0 == IF env_override # PyNone THEN env_override.d @@ environ ELSE environ
        e1 == IF INTERNAL_ORIGINATOR_ENV \in DOMAIN e0 THEN e0
              ELSE (INTERNAL_ORIGINATOR_ENV :> PYTHON_SDK_ORIGINATOR) @@ e0
        e2 == IF Truthy(base_url) THEN ("OPENAI_BASE_URL" :> base_url.s) @@ e1 ELSE e1
    IN  IF Truthy(api_key) THEN ("CODEX_API_KEY" :> api_key.s) @@ e2 ELSE e2

build_env(env_override, environ, base_url, api_key) ==
    LET e0 == IF env_override # PyNone THEN env_override.d ELSE environ
        e1 == IF INTERNAL_ORIGINATOR_ENV \in DOMAIN e0 THEN e0
              ELSE (INTERNAL_ORIGINATOR_ENV :> PYTHON_SDK_ORIGINATOR) @@ e0
        e2 == IF Truthy(base_url) THEN ("OPENAI_BASE_URL" :> base_url.s) @@ e1 ELSE e1
    IN  IF Truthy(api_key) THEN ("CODEX_API_KEY" :> api_key.s) @@ e2 ELSE e2

\* CodexOptions.env
EnvOverrides ==
    {PyNone,
     JObj(EmptyDict),
     JObj([CUSTOM_ENV |-> "custom"]),
     JObj([CODEX_INTERNAL_ORIGINATOR_OVERRIDE |-> "mine", PATH |-> "/opt"]),
     JObj([OPENAI_BASE_URL |-> "http://o", CODEX_API_KEY |-> "k0"])}

\* os.environ of the process that uses the SDK
Environs ==
    {EmptyDict,
     [PATH |-> "/bin"],
     [PATH |-> "/bin", CODEX_ENV_SHOULD_NOT_LEAK |-> "leak", CODEX_API_KEY |-> "amb",
      OPENAI_BASE_URL |-> "http://amb", CODEX_INTERNAL_ORIGINATOR_OVERRIDE |-> "amb"]}

\* two turns to be run with the same options, in two environments
EnvCases ==
    [env_override : EnvOverrides, environ : Environs \X Environs,
     base_url : {PyNone, JStr(""), JStr("http://u")},
     api_key : {PyNone, JStr(""), JStr("test")}]

\* a str as the sequence of its pieces: "" has none
Text(x) == IF x = "" THEN <<>> ELSE <<x>>

\* sep.join(parts)
RECURSIVE join(_, _)
join(sep, parts) ==
    IF parts = <<>> THEN <<>>
    ELSE IF Len(parts) = 1 THEN Text(parts[1])
    ELSE Text(parts[1]) \o sep \o join(sep, Tail(parts))

\* thread.py, normalize_input: the prompt and the image paths of an input
normalize_input_keepsAll(input) ==
    IF input.t = "str" THEN [prompt |-> Text(input.s), images |-> <<>>]
    ELSE LET IsText(item) == Get(item.d, "type", PyNone) = JStr("text")
             IsImage(item) == Get(item.d, "type", PyNone) = JStr("local_image")
             texts == SelectSeq(input.a, IsText)
             paths == SelectSeq(input.a, IsImage)
         IN  [prompt |-> join(<<"\n\n">>,
                              [n \in DOMAIN texts |-> Str(Get(texts[n].d, "text", PyNone))]),
              images |-> [n \in DOMAIN paths |-> Str(Get(paths[n].d, "path", PyNone))]]

normalize_input(input) ==
    IF input.t = "str" THEN [prompt |-> Text(input.s), images |-> <<>>]
    ELSE LET IsText(item) ==
                 /\ Get(item.d, "type", PyNone) = JStr("text")
                 /\ Get(item.d, "text", PyNone) # PyNone
             IsImage(item) ==
                 /\ Get(item.d, "type", PyNone) = JStr("local_image")
                 /\ Truthy(Get(item.d, "path", PyNone))
             texts == SelectSeq(input.a, IsText)
             paths == SelectSeq(input.a, IsImage)
         IN  [prompt |-> join(<<"\n\n">>, [n \in DOMAIN texts |-> Str(texts[n].d.text)]),
              images |-> [n \in DOMAIN paths |-> Str(paths[n].d.path)]]

\* an argument of the command line: a literal, or an f-string with its value
Lit(x) == [s |-> x]
Fmt(f, v) == [f |-> f, v |-> v]

\* list.extend([flag, value]) for each value of a list
Pairs(flag, values) ==
    [n \in 1..(2 * Len(values)) |->
        IF n % 2 = 1 THEN Lit(flag) ELSE Lit(values[(n + 1) \div 2])]

\* exec.py lines 50-78: the arguments after the path of the executable
command_args(a) ==
    LET Opt(flag, v) == IF Truthy(v) THEN <<Lit(flag), Lit(v.s)>> ELSE <<>>
        Config(f, v) == IF Truthy(v) THEN <<Lit("--config"), Fmt(f, v.s)>> ELSE <<>>
        Toggle(f, v) == IF v # PyNone THEN <<Lit("--config"), Fmt(f, v.b)>> ELSE <<>>
    IN  <<Lit("exec"), Lit("--experimental-json")>>
        \o Opt("--model", a.model)
        \o Opt("--sandbox", a.sandbox_mode)
        \o Opt("--cd", a.working_directory)
        \o (IF Truthy(a.additional_directories)
            THEN Pairs("--add-dir", a.additional_directories.a) ELSE <<>>)
        \o (IF a.skip_git_repo_check THEN <<Lit("--skip-git-repo-check")>> ELSE <<>>)
        \o Opt("--output-schema", a.output_schema_file)
        \o Config("model_reasoning_effort", a.model_reasoning_effort)
        \o Toggle("sandbox_workspace_write.network_access", a.network_access_enabled)
        \o Toggle("features.web_search_request", a.web_search_enabled)
        \o Config("approval_policy", a.approval_policy)
        \o Pairs("--image", a.images)
        \o Opt("resume", a.thread_id)

\* ThreadOptions: the defaults, and every option set
ThreadOptionsCases ==
    {[model |-> PyNone, sandbox_mode |-> PyNone, working_directory |-> PyNone,
      skip_git_repo_check |-> FALSE, model_reasoning_effort |-> PyNone,
      network_access_enabled |-> PyNone, web_search_enabled |-> PyNone,
      approval_policy |-> PyNone],
     [model |-> JStr("m"), sandbox_mode |-> JStr("read-only"),
      working_directory |-> JStr("/w"), skip_git_repo_check |-> TRUE,
      model_reasoning_effort |-> JStr("high"), network_access_enabled |-> JBool(TRUE),
      web_search_enabled |-> JBool(FALSE), approval_policy |-> JStr("on-request")]}

\* entries of an input list
InputEntries ==
    {JObj([type |-> JStr("text"), text |-> JStr(x)]) : x \in {"a", "b", ""}}
    \cup {JObj([type |-> JStr("local_image"), path |-> JStr(x)]) : x \in {"p1", "p2", ""}}
    \cup {JObj([type |-> JStr("text")]), JObj([type |-> JStr("local_image")])}

Inputs ==
    {JStr("hi")}
    \cup {JArr(l) : l \in UNION {[1..n -> InputEntries] : n \in 0..MaxEntries}}

\* a turn to be run: the input, the id of the Thread and its options
SpawnCases ==
    [input : Inputs, thread_id : {PyNone, JStr("t0")}, options : ThreadOptionsCases,
     additional_directories :
        {PyNone, JArr(<<>>), JArr(<<"d1">>), JArr(<<"d1", "d2">>), JArr(<<"d2", "d1">>),
         JArr(<<"d1", "d1">>)}]

InitSpawn ==
    /\ InitWith({PyNone})
    /\ NoBench
    /\ NoReaders
    /\ NoLists
    /\ NoStub
    /\ arg \in EnvCases \cup SpawnCases
    /\ ret = <<>>

\* the environment of the subprocess is built for each of the two turns
BuildEnv ==
    /\ "env_override" \in DOMAIN arg
    /\ ret = <<>>
    /\ ret' = [n \in 1..2 |->
                  build_env(arg.env_override, arg.environ[n], arg.base_url, arg.api_key)]
    /\ UNCHANGED <<turnVars, benchVars, readerVars, lists, stub, arg>>

\* thread.py lines 65-84 and exec.py lines 50-97: the command line of the
\* subprocess is put together and the prompt is written to its stdin
BuildCommand ==
    /\ "input" \in DOMAIN arg
    /\ ret = <<>>
    /\ LET n == normalize_input(arg.input)
           o == arg.options
       IN  ret' = <<[argv |-> command_args(
                                 [thread_id |-> arg.thread_id,
                                  images |-> n.images,
                                  model |-> o.model,
                                  sandbox_mode |-> o.sandbox_mode,
                                  working_directory |-> o.working_directory,
                                  additional_directories |-> arg.additional_directories,
                                  skip_git_repo_check |-> o.skip_git_repo_check,
                                  output_schema_file |-> PyNone,
                                  model_reasoning_effort |-> o.model_reasoning_effort,
                                  network_access_enabled |-> o.network_access_enabled,
                                  web_search_enabled |-> o.web_search_enabled,
                                  approval_policy |-> o.approval_policy]),
                     stdin |-> n.prompt]>>
    /\ UNCHANGED <<turnVars, benchVars, readerVars, lists, stub, arg>>

NextSpawn == BuildEnv \/ BuildCommand

SpecSpawn == InitSpawn /\ [][NextSpawn]_vars

(***************************************************************************)
(* Properties                                                              *)
(***************************************************************************)
IsRaise(exc) == outcome.kind = "raise" /\ outcome.exc = exc

Contains(msg, part) == \E i \in DOMAIN msg : msg[i] = part

IsCompleted(e) == e.type = "item.completed"
IsAgentCompleted(e) == e.type = "item.completed" /\ e.item.type = "agent_message"
IsFailure(e) == e.type \in {"turn.failed", "error"}

\* the items of the item.completed events of a sequence of events, in order
CompletedItems(evs) ==
    LET sel == SelectSeq(evs, IsCompleted)
    IN  [i \in DOMAIN sel |-> sel[i].item]

\* the text of the last completed agent message of a sequence of events
LastAgentText(evs) ==
    LET idx == {i \in DOMAIN evs : IsAgentCompleted(evs[i])}
    IN  IF idx = {} THEN ""
        ELSE evs[CHOOSE i \in idx : \A j \in idx : j <= i].item.text

\* C1: whenever Thread.run has consumed a turn.failed event with message m,
\* for every string m, it raises ThreadRunError with message m and returns
\* no TurnResult.
C1_TurnFailedRaises ==
    (mode = "run" /\ pc = "done" /\ events # <<>>
       /\ events[Len(events)].type = "turn.failed")
    => outcome = Raise("ThreadRunError", <<events[Len(events)].error.message>>)

\* C2: the final_response of every TurnResult that Thread.run returns is the
\* text of the last item.completed event for an agent_message among the
\* events consumed, and "" when there was none; item.started events never
\* change it.
C2_FinalResponseIsLastAgentMessage ==
    outcome.kind = "result" => outcome.final_response = LastAgentText(events)

C2_Witness ==
    /\ outcome.kind = "result"
    /\ Len(events) = 2
    /\ IsAgentCompleted(events[1])
    /\ IsAgentCompleted(events[2])
    /\ events[1].item.text # events[2].item.text
    /\ outcome.final_response = events[2].item.text

\* C3: the items of every TurnResult that Thread.run returns are exactly the
\* items of the item.completed events consumed, in arrival order; other
\* events add nothing.
C3_ItemsAreCompletedItemsInOrder ==
    outcome.kind = "result" => outcome.items = CompletedItems(events)

C3_Witness ==
    /\ outcome.kind = "result"
    /\ Len(outcome.items) = 2
    /\ outcome.items[1].type = "command_execution"
    /\ outcome.items[2].type = "agent_message"

\* C4: the cancellation event is checked before the subprocess is spawned and
\* its input written, after each line read and before it is yielded, and
\* after the subprocess has exited; when it is set at one of these checks
\* CancelledError is raised, the line just read is not yielded and nothing is
\* written, and once CancelledError was raised no event is delivered.
C4_CancellationChecked ==
    [][turn' = turn =>
          /\ (cancel /\ pc \in {"start", "gotline", "exited"} /\ pc' # pc) =>
                /\ outcome'.kind = "raise"
                /\ outcome'.exc = "CancelledError"
                /\ events' = events
                /\ stdin' = stdin
                /\ pc = "start" => proc'.st = "none"
          /\ IsRaise("CancelledError") => events' = events]_vars

C4_Witness ==
    /\ outcome = Raise("CancelledError", <<"Turn cancelled">>)
    /\ Len(events) = 1
    /\ readPos = 2

C6_NoProcessLeftOnExit ==
    (pc = "done" /\ proc.st # "none") =>
        (proc.st \in {"exited", "killed"} /\ handles = ClosedHandles)

\* C7: a line that is empty or whitespace-only is skipped: it never ends the
\* turn with a decode error.
C7_BlankLineSkipped ==
    ~(IsRaise("JSONDecodeError") /\ rstrip_crlf(rawLine) \in BlankTexts)

C9_FailurePrecedence ==
    (mode = "run" /\ pc = "done"
       /\ \E i \in DOMAIN events : events[i].type = "turn.failed")
    => IsRaise("ThreadRunError")

\* C10: when Thread.run has consumed a thread-level error event with message
\* m it raises ThreadRunError with message m, and the failure event is the
\* last event consumed: nothing that follows it on the stream is consumed.
C10_ErrorEventRaises ==
    (mode = "run" /\ pc = "done" /\ events # <<>>
       /\ \E i \in DOMAIN events : events[i].type = "error")
    => /\ events[Len(events)].type = "error"
       /\ \A i \in 1..(Len(events) - 1) : ~IsFailure(events[i])
       /\ outcome = Raise("ThreadRunError", <<events[Len(events)].message>>)

\* the usage of the last turn.completed event of a sequence of events, None
\* when there is none
LastUsage(evs) ==
    LET idx == {i \in DOMAIN evs : evs[i].type = "turn.completed"}
    IN  IF idx = {} THEN PyNone
        ELSE evs[CHOOSE i \in idx : \A j \in idx : j <= i].usage

\* the events decoded from the first n lines the subprocess wrote
Decoded(n) == [i \in 1..n |-> parse_thread_event(rstrip_crlf(emitted[i])).val]

\* C11: a turn.completed event records usage and does not end the turn.  When
\* Thread.run returns a TurnResult without having consumed a failure event,
\* it has consumed every line the subprocess wrote, the ones after a
\* turn.completed included: the items and the final response count the
\* item.completed events after it, the usage is that of the last
\* turn.completed event consumed, and None when there was none.
C11_UsageIsLastTurnCompleted ==
    outcome.kind = "result" =>
        /\ outcome.usage = LastUsage(events)
        /\ outcome.items = CompletedItems(events)
        /\ outcome.final_response = LastAgentText(events)
        /\ (\A i \in DOMAIN events : ~IsFailure(events[i])) =>
               events = Decoded(Len(emitted))

C11_Witness ==
    /\ outcome.kind = "result"
    /\ Len(events) = 2
    /\ events[1].type = "turn.completed"
    /\ events[2].type = "turn.completed"
    /\ events[1].usage # events[2].usage
    /\ outcome.usage = events[2].usage

\* the step consumed an event: it was appended to the events of the turn
Consumed == turn' = turn /\ Len(events') = Len(events) + 1

\* the step spawned the subprocess of the turn
Spawned == ~command.spawned /\ command'.spawned

\* C12: Thread.id changes only when a thread.started event is consumed, to
\* the thread_id of that event, whatever becomes of the turn afterwards; and
\* every subprocess is spawned with `resume <Thread.id>` when the Thread has
\* an id and without `resume` when it has none.
C12_ResumesWithLatestThreadId ==
    [][/\ id' = IF Consumed /\ events'[Len(events')].type = "thread.started"
                THEN JStr(events'[Len(events')].thread_id)
                ELSE id
       /\ Spawned => command'.resume = id]_vars

\* the event types and the item types of types.py
EventTypes ==
    {"thread.started", "turn.started", "turn.completed", "turn.failed", "item.started",
     "item.updated", "item.completed", "error"}
ItemEventTypes == {"item.started", "item.updated", "item.completed"}
ItemTypes ==
    {"agent_message", "reasoning", "command_execution", "file_change", "mcp_tool_call",
     "web_search", "todo_list", "error"}

\* v is a JSON object whose `type` is one of the strings `types`
HasType(v, types) ==
    /\ v.t = "obj"
    /\ "type" \in DOMAIN v.d
    /\ v.d["type"] \in {JStr(t) : t \in types}

\* the text is no JSON, or its event type, or the type of its nested item,
\* is missing or not recognized
Malformed(text) ==
    \/ text.k # "json"
    \/ ~HasType(text.v, EventTypes)
    \/ /\ HasType(text.v, ItemEventTypes)
       /\ \/ "item" \notin DOMAIN text.v.d
          \/ ~HasType(text.v.d["item"], ItemTypes)

DecodeErrors == {"JSONDecodeError", "ValueError", "KeyError", "AttributeError", "TypeError"}

IsDecodeError == outcome.kind = "raise" /\ outcome.exc \in DecodeErrors

\* the event is the variant that the line it was decoded from names
VariantOf(event, text) ==
    /\ ~Malformed(text)
    /\ JStr(event.type) = text.v.d["type"]
    /\ event.type \in ItemEventTypes => JStr(event.item.type) = text.v.d["item"].d["type"]

\* C13: a line handed to the decoder that is no JSON, or whose event type or
\* nested item type is missing or not recognized, raises a decode error to
\* the caller: the turn ends there without a TurnResult and without an event
\* for the line, nothing more is read or decoded in the turn, and every
\* event ever produced is the variant its line names, never a default.
C13_DecodeErrorAborts ==
    [][turn' = turn =>
          /\ (pc = "gotline" /\ pc' # pc /\ ~cancel /\ Malformed(rstrip_crlf(rawLine))) =>
                /\ pc' = "done"
                /\ outcome'.kind = "raise"
                /\ outcome'.exc \in DecodeErrors
                /\ events' = events
          /\ IsDecodeError =>
                /\ outcome' = outcome
                /\ readPos' = readPos
                /\ events' = events
          /\ \A i \in DOMAIN events' :
                VariantOf(events'[i], rstrip_crlf(emitted'[i]))]_vars

C13_Witness ==
    /\ mode = "run"
    /\ outcome = Raise("ValueError", <<>>)
    /\ Len(events) = 1
    /\ readPos = 2
    /\ HasType(rstrip_crlf(rawLine).v, ItemEventTypes)
    /\ ~HasType(rstrip_crlf(rawLine).v.d["item"], ItemTypes)

\* a step of Thread.run in a turn whose cancellation event was set before a
\* line was read, or before the check of the first line read
EarlyCancelStep ==
    /\ turn' = turn
    /\ mode = "run"
    /\ cancel
    /\ readPos = 0 \/ (readPos = 1 /\ pc = "gotline")

\* the step hands control back to the caller of the turn
Returns == pc # "done" /\ pc' = "done"

CancelledWhileStreaming == mode = "streamed" /\ pc \notin {"idle", "done"} /\ cancel

\* the iteration ended with CancelledError, or the caller closed it
StreamCancelled == IsRaise("CancelledError") \/ outcome = Closed

\* no event is delivered in a step taken while the cancellation event is set
NoEventOnceCancelled == [][(cancel /\ turn' = turn) => events' = events]_vars

\* C15: when the cancellation event is set while a streamed turn is iterated
\* and the subprocess has written a line not yet read or has closed its
\* standard output, the iteration eventually raises CancelledError (unless
\* the caller closes it first); events delivered before the event was set
\* stay delivered and no event is delivered after it was set.
C15_StreamEventuallyCancelled ==
    /\ (CancelledWhileStreaming /\ proc.st # "none"
           /\ (readPos < Len(emitted) \/ ~childOut))
          ~> StreamCancelled
    /\ NoEventOnceCancelled

\* C15, amended: the same, once the input of the turn has been written, for
\* a subprocess that has written a line not yet read or has exited.
C15_StreamCancelledOnLineOrExit ==
    /\ (CancelledWhileStreaming /\ stdin
           /\ (readPos < Len(emitted) \/ proc.st # "running"))
          ~> StreamCancelled
    /\ NoEventOnceCancelled

C15_Witness ==
    /\ mode = "streamed"
    /\ outcome = Raise("CancelledError", <<"Turn cancelled">>)
    /\ Len(events) = 1
    /\ readPos = 2

\* C16: when the cancellation event is set at the check that follows the
\* exit of the subprocess, Thread.run raises CancelledError although every
\* line of the stream was consumed and whatever the exit status: neither
\* the TurnResult accumulated nor the RuntimeError of a failed process is
\* what the caller gets.
C16_CancelAfterExitWins ==
    [][(mode = "run" /\ pc = "exited" /\ pc' # pc /\ cancel) =>
          /\ readPos = Len(emitted)
          /\ Len(events) = Len(emitted)
          /\ outcome' = Raise("CancelledError", <<"Turn cancelled after process exit">>)]_vars

C16_Witness ==
    /\ mode = "run"
    /\ outcome = Raise("CancelledError", <<"Turn cancelled after process exit">>)
    /\ Len(events) = 2
    /\ events[2].type = "turn.completed"
    /\ proc.rc = 1

\* C17: in a turn run with an output_schema the schema file is written
\* before the subprocess is spawned and its path is passed to it as
\* --output-schema; the file exists for as long as the turn is in progress,
\* and it is removed when Thread.run has returned or raised, whatever the
\* outcome.
C17_SchemaFileLivesForTheTurn ==
    output_schema = OutputSchema =>
        /\ proc.st # "none" => command.output_schema = SchemaPath
        /\ (proc.st # "none" /\ pc # "done") => schemaFile = "exists"
        /\ pc = "done" => schemaFile # "exists"
        /\ (pc = "done" /\ mode = "run") => schemaFile = "removed"

C17_Witness ==
    /\ mode = "run"
    /\ output_schema = OutputSchema
    /\ command.spawned
    /\ command.output_schema = SchemaPath
    /\ IsRaise("JSONDecodeError")
    /\ schemaFile = "removed"

\* C18: in a streamed turn the events yielded so far are the decodings of
\* the first lines the subprocess wrote, one event for each line, in the
\* order written: no event is dropped, duplicated or reordered.  Every line
\* read has yielded its event, but for the line read last while it is being
\* handled or when the turn ended at it with an error.
C18_EventsArePrefixOfLines ==
    mode = "streamed" =>
        /\ Len(events) <= readPos
        /\ readPos <= Len(emitted)
        /\ \A i \in DOMAIN events :
              LET parsed == parse_thread_event(rstrip_crlf(emitted[i]))
              IN  parsed.ok /\ events[i] = parsed.val
        /\ Len(events) >= readPos - 1
        /\ Len(events) = readPos - 1 =>
              \/ pc = "gotline"
              \/ pc = "done" /\ outcome.kind = "raise"

C18_Witness ==
    /\ mode = "streamed"
    /\ pc = "yielded"
    /\ Len(events) = 2
    /\ readPos = 2
    /\ events[1].type = "item.completed"
    /\ events[2].type = "turn.completed"

\* the consumer thread is inside CodexExec.run and cannot take its next step
Blocked ==
    /\ pc \in {"start", "spawned", "written", "read", "gotline", "wait", "exited"}
    /\ ~ENABLED ConsumerStep

\* blocked in `for raw_line in process.stdout`: no line to read and the
\* subprocess has its standard output open
BlockedOnRead == pc = "read" /\ readPos = Len(emitted) /\ childOut

\* blocked in process.stdin.write: no room in the pipe and the subprocess is
\* running
BlockedOnWrite == pc = "spawned" /\ ~stdinRoom /\ proc.st = "running"

\* blocked in process.wait(): standard output is at end of file and the
\* subprocess has not exited
BlockedOnWait ==
    pc = "wait" /\ readPos = Len(emitted) /\ ~childOut /\ proc.st = "running"

\* C19: whenever the consumer of a turn is blocked, it is waiting for the next
\* line of the standard output of the subprocess.
C19_BlockedOnlyOnNextLine == Blocked => BlockedOnRead

\* C19, amended: whenever the consumer of a turn is blocked, it is waiting
\* for the next line of standard output, or for room in the pipe to write
\* the input, or, after the end of standard output, for the subprocess to
\* exit.
C19_BlockedOnReadWriteOrWait == Blocked => (BlockedOnRead \/ BlockedOnWrite \/ BlockedOnWait)

C19_Witness == Blocked /\ BlockedOnWait /\ cancel /\ Len(events) = 2

\* the subprocess of task i was spawned and is not fully awaited: it has not
\* exited, or the reading of its standard output or standard error has not
\* ended
NotFullyAwaited(i) ==
    /\ tasks[i].proc # "none"
    /\ ~(/\ tasks[i].proc = "exited"
         /\ tasks[i].stdout_task \in {"eof", "raised"}
         /\ tasks[i].stderr_task = "eof")

InFlight == {i \in DOMAIN tasks : NotFullyAwaited(i)}

Running == {i \in DOMAIN tasks : tasks[i].proc = "running"}

\* C20: in run_case with a concurrency limit of at least 1 and any number of
\* iterations, at no moment are more subprocesses spawned and not yet fully
\* awaited than the concurrency limit, in every interleaving of the
\* run_once tasks; in particular no more than that many are running.
C20_AtMostConcurrencyInFlight ==
    /\ Cardinality(InFlight) <= concurrency
    /\ Cardinality(Running) <= concurrency
    /\ sem >= 0

C20_Witness ==
    /\ Len(tasks) > concurrency
    /\ Cardinality(InFlight) = concurrency
    /\ \E i \in DOMAIN tasks : tasks[i].pc = "done"
    /\ \E i \in DOMAIN tasks : tasks[i].pc = "acquire"

\* a decoding step has been made: ret is <<what was decoded, the result>>
ItemDecoded == DOMAIN arg \subseteq {"item", "wire"} /\ Len(ret) = 2

EventDecoded == "payload" \in DOMAIN arg /\ Len(ret) = 2

\* C25: an item payload with a recognized type and no `id` member is rejected
\* with a decode error instead of producing an item.
C25_ItemWithoutIdRejected ==
    (/\ ItemDecoded
     /\ HasType(ret[1], ItemTypes)
     /\ "id" \notin DOMAIN ret[1].d)
    => ~ret[2].ok

\* the value a usage count decodes to: the number on the wire, 0 when the
\* member is left out or null
WireCount(usage, f) ==
    IF usage.t = "obj" /\ f \in DOMAIN usage.d /\ usage.d[f].t = "int"
    THEN usage.d[f].n ELSE 0

\* C26: decoding turn.completed succeeds whatever usage data is missing, each
\* count is the wire value when present and 0 when absent, independently of
\* the others; an item event whose item has no type or an unrecognized type
\* is a decode error, never an item of a default type.
C26_UsageDefaultsItemTypeDoesNot ==
    EventDecoded =>
        LET data == ret[1].v.d
        IN  /\ data["type"] = JStr("turn.completed") =>
                /\ ret[2].ok
                /\ \A f \in UsageFields :
                      ret[2].val.usage[f] = WireCount(Get(data, "usage", PyNone), f)
            /\ (data["type"] # JStr("turn.completed")
                /\ ~HasType(data["item"], ItemTypes)) => ~ret[2].ok

C26_Witness ==
    /\ EventDecoded
    /\ ret[1].v.d["type"] = JStr("turn.completed")
    /\ "usage" \in DOMAIN ret[1].v.d
    /\ ret[1].v.d["usage"].t = "obj"
    /\ DOMAIN ret[1].v.d["usage"].d = {"output_tokens"}
    /\ ret[2].ok
    /\ ret[2].val.usage = [input_tokens |-> 0, cached_input_tokens |-> 0, output_tokens |-> 7]

\* C27: an item of any of the eight variants, encoded to its wire shape and
\* decoded with parse_thread_item, is equal to the original in all fields.
C27_ItemRoundTrip ==
    ("item" \in DOMAIN arg /\ Len(ret) = 2) => ret[2] = Ok(arg.item)

C27_Witness ==
    /\ "item" \in DOMAIN arg
    /\ Len(ret) = 2
    /\ arg.item.type = "mcp_tool_call"
    /\ arg.item.result = PyNone
    /\ arg.item.error # PyNone
    /\ "result" \notin DOMAIN ret[1].d
    /\ ret[2].ok
    /\ ret[2].val.result = PyNone

EnvBuilt == "env_override" \in DOMAIN arg /\ Len(ret) = 2

\* C22: with an env override configured, the environment of the subprocess
\* holds the variables of the override, OPENAI_BASE_URL and CODEX_API_KEY
\* when the SDK sets them, the originator variable with the SDK's value when
\* the override does not define it, and nothing else; it is the same
\* whatever the environment of the calling process is.
C22_EnvOverrideHidesAmbient ==
    (EnvBuilt /\ arg.env_override # PyNone) =>
        LET o == arg.env_override.d
            env == ret[1]
            Set(k, v) == Truthy(v) /\ env[k] = v.s
        IN  /\ ret[1] = ret[2]
            /\ DOMAIN o \subseteq DOMAIN env
            /\ \A k \in DOMAIN env :
                  \/ k = "OPENAI_BASE_URL" /\ Set(k, arg.base_url)
                  \/ k = "CODEX_API_KEY" /\ Set(k, arg.api_key)
                  \/ /\ k \in DOMAIN o
                     /\ env[k] = o[k]
                     /\ k = "OPENAI_BASE_URL" => ~Truthy(arg.base_url)
                     /\ k = "CODEX_API_KEY" => ~Truthy(arg.api_key)
                  \/ /\ k = INTERNAL_ORIGINATOR_ENV
                     /\ k \notin DOMAIN o
                     /\ env[k] = PYTHON_SDK_ORIGINATOR

C22_Witness ==
    /\ EnvBuilt
    /\ arg.env_override = JObj([CUSTOM_ENV |-> "custom"])
    /\ arg.environ[1] = EmptyDict
    /\ "CODEX_ENV_SHOULD_NOT_LEAK" \in DOMAIN arg.environ[2]
    /\ ret[2] = [CUSTOM_ENV |-> "custom", OPENAI_BASE_URL |-> "http://u",
                 CODEX_API_KEY |-> "test",
                 CODEX_INTERNAL_ORIGINATOR_OVERRIDE |-> "codex_sdk_py"]

CommandBuilt == "input" \in DOMAIN arg /\ Len(ret) = 1

\* the arguments that take a value
ValueFlags ==
    {"--model", "--sandbox", "--cd", "--add-dir", "--output-schema", "--config", "--image",
     "resume"}

\* the values given to `flag` on the command line argv, read from position n
RECURSIVE ValuesOf(_, _, _)
ValuesOf(argv, flag, n) ==
    IF n > Len(argv) THEN <<>>
    ELSE IF argv[n] \in {Lit(f) : f \in ValueFlags}
    THEN (IF argv[n] = Lit(flag) THEN <<argv[n + 1].s>> ELSE <<>>)
         \o ValuesOf(argv, flag, n + 2)
    ELSE ValuesOf(argv, flag, n + 1)

\* the members `member` of the entries of type `type` of an input, in order
MembersOf(input, type, member) ==
    IF input.t = "str" THEN <<>>
    ELSE LET Has(item) ==
                 /\ Get(item.d, "type", PyNone) = JStr(type)
                 /\ member \in DOMAIN item.d
             sel == SelectSeq(input.a, Has)
         IN  [n \in DOMAIN sel |-> sel[n].d[member].s]

NonEmpty(x) == x # ""

ConfiguredDirs ==
    IF arg.additional_directories = PyNone THEN <<>> ELSE arg.additional_directories.a

\* C28: the prompt written to the subprocess is the texts of the text entries
\* joined by a blank line, the --image arguments are the paths of the
\* local_image entries, the --add-dir arguments are the configured
\* additional directories, each in order, nothing dropped or duplicated.
C28_InputForwardedInOrder ==
    CommandBuilt =>
        /\ ret[1].stdin = IF arg.input.t = "str" THEN Text(arg.input.s)
                          ELSE join(<<"\n\n">>, MembersOf(arg.input, "text", "text"))
        /\ ValuesOf(ret[1].argv, "--image", 1) = MembersOf(arg.input, "local_image", "path")
        /\ ValuesOf(ret[1].argv, "--add-dir", 1) = ConfiguredDirs

\* C28, amended: as C28, with the --image arguments being the non-empty paths
\* of the local_image entries: an entry whose path is empty gives no argument.
C28_NonEmptyPathsForwardedInOrder ==
    CommandBuilt =>
        /\ ret[1].stdin = IF arg.input.t = "str" THEN Text(arg.input.s)
                          ELSE join(<<"\n\n">>, MembersOf(arg.input, "text", "text"))
        /\ ValuesOf(ret[1].argv, "--image", 1) =
               SelectSeq(MembersOf(arg.input, "local_image", "path"), NonEmpty)
        /\ ValuesOf(ret[1].argv, "--add-dir", 1) = ConfiguredDirs

C28_Witness ==
    /\ CommandBuilt
    /\ arg.input = JArr(<<JObj([type |-> JStr("local_image"), path |-> JStr("p2")]),
                          JObj([type |-> JStr("local_image"), path |-> JStr("")])>>)
    /\ arg.additional_directories = JArr(<<"d2", "d1">>)
    /\ arg.options.model # PyNone
    /\ ValuesOf(ret[1].argv, "--image", 1) = <<"p2">>
    /\ ValuesOf(ret[1].argv, "--add-dir", 1) = <<"d2", "d1">>
    /\ ret[1].stdin = <<>>

\* C23: run_streamed is lazy and single-pass: until the first event is
\* requested there is no subprocess, no schema file and no command line; a
\* subprocess is spawned only by a turn that has none yet, once; and after
\* the sequence of events of a streamed turn has ended, asking again yields
\* no event, reads no line, spawns nothing and creates no file.
C23_LazySinglePass ==
    [][/\ (mode' = "streamed" /\ pc' = "created") =>
              /\ proc' = NoProc
              /\ schemaFile' = "none"
              /\ command' = NoCommand
              /\ events' = <<>>
       /\ (proc'.st = "running" /\ proc.st # "running") =>
              /\ pc = "start"
              /\ proc = NoProc
              /\ command = NoCommand
              /\ turn' = turn
       /\ (turn' # turn) => (proc' = NoProc /\ command' = NoCommand)
       /\ (mode = "streamed" /\ pc = "done" /\ turn' = turn) =>
              /\ pc' = "done"
              /\ events' = events
              /\ readPos' = readPos
              /\ command' = command
              /\ schemaFile' = schemaFile
              /\ (proc'.st = "running" => proc.st = "running")]_vars

\* the caller of the second streamed turn asked again after an event had been
\* yielded and the sequence had ended with the subprocess still running
C23_Witness ==
    /\ mode = "streamed"
    /\ turn = 2
    /\ pc = "done"
    /\ outcome = Exhausted
    /\ proc.st = "running"
    /\ events # <<>>
    /\ output_schema = OutputSchema

\* a TurnResult with the content of its list
Deref(r, heap) == [r EXCEPT !.items = heap[r.items]]

\* the locals of Thread.run after the events evs, from the locals a
RECURSIVE FoldDispatch(_, _)
FoldDispatch(a, evs) ==
    IF evs = <<>> THEN a ELSE FoldDispatch(RunDispatch(a, Head(evs)), Tail(evs))

\* C24: every call of Thread.run starts from a fresh accumulator: the
\* TurnResult of a turn is what the events of that turn alone give, a
\* TurnResult already returned is not changed by any later step, and the
\* thread id changes only to the id of a thread.started event of the turn.
C24_FreshAccumulatorPerRun ==
    [][/\ (pc' = "done" /\ outcome'.kind = "result") =>
              Deref(outcome', lists') = RunFinish(FoldDispatch(InitAcc, events'))
       /\ \A k \in DOMAIN ret :
              /\ k \in DOMAIN ret'
              /\ Deref(ret'[k], lists') = Deref(ret[k], lists)
       /\ id' # id =>
              /\ Len(events') = Len(events) + 1
              /\ events'[Len(events')].type = "thread.started"
              /\ id' = JStr(events'[Len(events')].thread_id)]_vars

\* two turns returned, each with an item of its own, the second with usage
C24_Witness ==
    /\ turn = 2
    /\ pc = "done"
    /\ Len(ret) = 2
    /\ Len(Deref(ret[1], lists).items) = 1
    /\ Len(Deref(ret[2], lists).items) = 1
    /\ Deref(ret[1], lists).items # Deref(ret[2], lists).items
    /\ ret[1].final_response = "A"
    /\ ret[1].usage = PyNone
    /\ ret[2].final_response = ""
    /\ ret[2].usage # PyNone
    /\ id = JStr("t1")

\* the method of a message, "" when it has none
MethodOf(msg) == IF "method" \in DOMAIN msg.d THEN msg.d.method.s ELSE ""

Flow ==
    <<"initialize", "initialized", "newConversation", "addConversationListener",
      "sendUserMessage">>

\* the methods of the flow that the client wrote, in the order it wrote them
FlowWritten(log) ==
    LET IsFlow(e) == e.dir = "out" /\ \E n \in DOMAIN Flow : MethodOf(e.msg) = Flow[n]
        sel == SelectSeq(log, IsFlow)
    IN  [n \in DOMAIN sel |-> MethodOf(sel[n].msg)]

\* before position p of the log the client wrote the request `method` and
\* then took from the queue a result carrying the id of that request
Answered(log, p, method) ==
    \E r \in 1..(p - 1), q \in 1..(p - 1) :
        /\ r < q
        /\ log[r].dir = "out"
        /\ MethodOf(log[r].msg) = method
        /\ log[q].dir = "in"
        /\ "result" \in DOMAIN log[q].msg.d
        /\ "id" \in DOMAIN log[q].msg.d
        /\ log[q].msg.d.id = log[r].msg.d.id

\* the same, the result being an object with a conversationId, which the
\* message at p carries
AnsweredWithConversation(log, p) ==
    \E r \in 1..(p - 1), q \in 1..(p - 1) :
        /\ r < q
        /\ log[r].dir = "out"
        /\ MethodOf(log[r].msg) = "newConversation"
        /\ log[q].dir = "in"
        /\ "result" \in DOMAIN log[q].msg.d
        /\ "id" \in DOMAIN log[q].msg.d
        /\ log[q].msg.d.id = log[r].msg.d.id
        /\ log[q].msg.d.result.t = "obj"
        /\ "conversationId" \in DOMAIN log[q].msg.d.result.d
        /\ log[p].msg.d.params.d.conversationId = log[q].msg.d.result.d.conversationId

FlowInOrder(log) ==
    /\ FlowWritten(log) = SubSeq(Flow, 1, Len(FlowWritten(log)))
    /\ \A p \in DOMAIN log :
          log[p].dir = "out" =>
              /\ MethodOf(log[p].msg) = "initialized" => Answered(log, p, "initialize")
              /\ MethodOf(log[p].msg) \in {"addConversationListener", "sendUserMessage"} =>
                     AnsweredWithConversation(log, p)

\* the id of the request the client is waiting for the answer of
Awaited(st) ==
    CASE st.pc = "await_initialize" -> st.init_id
      [] st.pc = "await_newConversation" -> st.new_conv_id
      [] st.pc = "main" -> st.send_id

\* C29: the client writes initialize, initialized, newConversation,
\* addConversationListener, sendUserMessage in this order; initialized only
\* after it received the result of initialize; addConversationListener and
\* sendUserMessage only after it received the result of newConversation with
\* a conversationId; on a timeout or an error response for the step it waits
\* for it returns 2; and once it returned it writes nothing more.
C29_FlowInOrder ==
    [][/\ FlowInOrder(stub'.log)
       /\ (stub.pc \in AwaitPcs /\ stub'.pc # stub.pc /\ stub'.log = stub.log) =>
              (stub'.pc = "returned" /\ stub'.rc = 2)
       /\ (/\ stub.pc \in AwaitPcs
           /\ Len(stub'.log) = Len(stub.log) + 1
           /\ LET msg == stub'.log[Len(stub'.log)].msg
              IN  /\ "error" \in DOMAIN msg.d
                  /\ "result" \notin DOMAIN msg.d
                  /\ "method" \notin DOMAIN msg.d
                  /\ Get(msg.d, "id", PyNone) = JInt(Awaited(stub))) =>
              (stub'.pc = "returned" /\ stub'.rc = 2)
       /\ stub.pc \in {"returned", "raised"} =>
              (stub'.log = stub.log /\ stub'.pc = stub.pc /\ stub'.rc = stub.rc)]_vars

\* the whole flow was written and the task completed
C29_Witness ==
    /\ stub # PyNone
    /\ stub.pc = "returned"
    /\ stub.rc = 0
    /\ FlowWritten(stub.log) = Flow
    /\ stub.conversation_id = JStr("c1")

\* a responsesApi/call request with a callId, taken from the queue in the
\* main loop
IsCall(log, p) ==
    /\ log[p].dir = "in"
    /\ MethodOf(log[p].msg) = "responsesApi/call"
    /\ "id" \in DOMAIN log[p].msg.d
    /\ "params" \in DOMAIN log[p].msg.d
    /\ log[p].msg.d.params.t = "obj"
    /\ "callId" \in DOMAIN log[p].msg.d.params.d
    /\ \E q \in 1..(p - 1) :
          log[q].dir = "out" /\ MethodOf(log[q].msg) = "sendUserMessage"

\* the four messages that answer the call request msg
AnswerTo(msg) ==
    LET Event(type) ==
            [dir |-> "out",
             msg |-> JObj([method |-> JStr("responsesApi/event"),
                           params |-> JObj([callId |-> msg.d.params.d.callId,
                                            event |-> JObj([type |-> JStr(type)])])])]
    IN  <<Event("response.created"), Event("response.output_item.done"),
          Event("response.completed"),
          [dir |-> "out",
           msg |-> JObj([id |-> msg.d.id,
                         result |-> JObj([status |-> JInt(200), requestId |-> PyNone,
                                          error |-> PyNone])])]>>

\* what follows a call in the log is its answer, as far as the log goes, and
\* after the answer the next entry is a message taken from the queue
AnswersInOrder(log) ==
    \A p \in DOMAIN log :
        IsCall(log, p) =>
            /\ \A k \in 1..4 : p + k <= Len(log) => log[p + k] = AnswerTo(log[p].msg)[k]
            /\ p + 5 <= Len(log) => log[p + 5].dir = "in"

AllAnswered(log) == \A p \in DOMAIN log : IsCall(log, p) => p + 4 <= Len(log)

\* C30: for every responsesApi/call request received in the main loop the
\* client writes the three responsesApi/event notifications and then the
\* response with status 200, nothing else in between, before it takes
\* another message.
C30_CallAnswered ==
    stub # PyNone =>
        /\ AnswersInOrder(stub.log)
        /\ stub.pc \in {"main", "returned", "raised"} => AllAnswered(stub.log)

\* C30, amended: as C30 as long as the writes to the server succeed; a write
\* to a server that has exited raises, and the client stops having written
\* the messages before it only.
C30_CallAnsweredUnlessWriteFails ==
    stub # PyNone =>
        /\ AnswersInOrder(stub.log)
        /\ stub.pc \in {"main", "returned"} => AllAnswered(stub.log)

\* a call was answered and a further message taken from the queue
C30_Witness ==
    /\ stub # PyNone
    /\ stub.pc = "main"
    /\ \E p \in DOMAIN stub.log :
          /\ IsCall(stub.log, p)
          /\ p + 5 = Len(stub.log)
    /\ stub.final_ok

\* C38: whenever run_exec_over_jsonrpc has returned, the app-server process
\* has been sent terminate and the temporary CODEX_HOME, if one was created,
\* has been cleaned up.
C38_ReturnCleansUp ==
    (stub # PyNone /\ stub.pc = "returned") =>
        /\ stub.terminated
        /\ stub.tmpdir # "exists"

\* terminate_process is running
InTerminate == pc \notin {"idle", "done", "closed"}

\* C33: terminate_process never raises and never signals a process that has
\* exited: terminate goes only to a running process, kill only to a process
\* still running after terminate and the wait or after terminate failed, and
\* when it returns the process has exited or has been sent kill.
C33_TerminateNeverRaises ==
    [][/\ outcome'.kind # "raise"
       /\ (proc'.term /\ ~proc.term) => (Alive(proc) /\ pc = "tp_terminate")
       /\ (proc'.kill /\ ~proc.kill) =>
              /\ Alive(proc)
              /\ pc \in {"tp_kill", "tp_kill_after_error"}
              /\ pc = "tp_kill" => proc.term
       /\ ~InTerminate => (proc'.term = proc.term /\ proc'.kill = proc.kill)
       /\ (InTerminate /\ pc' = "done") => (proc'.st = "exited" \/ proc'.kill)]_vars

\* C33, amended: as C33, except that a kill that raises is passed over:
\* terminate_process then returns with the process neither exited nor killed.
C33_TerminateNeverRaisesKillMayFail ==
    [][/\ outcome'.kind # "raise"
       /\ (proc'.term /\ ~proc.term) => (Alive(proc) /\ pc = "tp_terminate")
       /\ (proc'.kill /\ ~proc.kill) =>
              /\ Alive(proc)
              /\ pc \in {"tp_kill", "tp_kill_after_error"}
              /\ pc = "tp_kill" => proc.term
       /\ ~InTerminate => (proc'.term = proc.term /\ proc'.kill = proc.kill)
       /\ (InTerminate /\ pc' = "done") =>
              (proc'.st = "exited" \/ proc'.kill \/ outcome' = Returned(TRUE))]_vars

\* the second call found the process killed by the first, which had sent
\* terminate and, two seconds later, kill
C33_Witness ==
    /\ pc = "done"
    /\ turn = 2
    /\ proc.term
    /\ proc.kill
    /\ proc.st = "exited"
    /\ proc.rc = -9
    /\ outcome = Returned(FALSE)

\* an output_schema that is neither None nor a dict
NonObject(schema) == schema # PyNone /\ schema.t # "obj"

\* C35: a turn started with an output_schema that is neither absent nor a
\* JSON object spawns no subprocess, writes nothing, leaves no schema
\* directory, ends by raising ValueError and leaves the thread id as it was.
\* (A streamed turn starts at the first next(); one that is closed before
\* that has run no statement of the turn.)
C35_NonObjectSchemaRaisesBeforeSpawn ==
    [][NonObject(output_schema') =>
          /\ proc' = NoProc
          /\ ~stdin'
          /\ command' = NoCommand
          /\ emitted' = <<>>
          /\ schemaFile' = "none"
          /\ id' = id
          /\ (pc' = "done" /\ outcome' # Closed) =>
                 outcome' = Raise("ValueError", <<"output_schema must be a plain JSON object">>)]_vars

\* the second turn of a thread that has its id was given a list as schema
C35_Witness ==
    /\ turn = 2
    /\ id # PyNone
    /\ NonObject(output_schema)
    /\ pc = "done"
    /\ outcome.kind = "raise"
    /\ outcome.exc = "ValueError"

\* the lines a subprocess wrote, told apart by what was written
StartedCommand(l) ==
    \E i \in CommandIds : l = BenchItemLine("item.started", "command_execution", i)
CompletedCommand(l) ==
    \E i \in CommandIds : l = BenchItemLine("item.completed", "command_execution", i)
StartedMcp(l) == l = BenchItemLine("item.started", "mcp_tool_call", "m1")
CarriesUsage(l) ==
    l \in {TurnCompletedLine,
           TurnCompletedWith(JObj([input_tokens |-> JInt(7), output_tokens |-> JInt(1)]))}
IdOf(l) == l.v.d.item.d.id.s
Count(lines, P(_)) == Cardinality({k \in DOMAIN lines : P(lines[k])})

\* the ids with a start that no item.completed has consumed, after `lines`
RECURSIVE Outstanding(_)
Outstanding(lines) ==
    IF lines = <<>> THEN {}
    ELSE LET before == Outstanding(SubSeq(lines, 1, Len(lines) - 1))
             l == lines[Len(lines)]
         IN  IF StartedCommand(l) THEN before \cup {IdOf(l)}
             ELSE IF CompletedCommand(l) THEN before \ {IdOf(l)}
             ELSE before

\* the number of item.completed lines that found an outstanding start
RECURSIVE TimedCommands(_)
TimedCommands(lines) ==
    IF lines = <<>> THEN 0
    ELSE LET front == SubSeq(lines, 1, Len(lines) - 1)
             l == lines[Len(lines)]
         IN  TimedCommands(front)
             + (IF CompletedCommand(l) /\ IdOf(l) \in Outstanding(front) THEN 1 ELSE 0)

\* the usage of the last line of `lines` that is a turn.completed with usage
RECURSIVE UsageAfter(_)
UsageAfter(lines) ==
    IF lines = <<>> THEN PyNone
    ELSE LET l == lines[Len(lines)]
         IN  IF CarriesUsage(l)
             THEN [input_tokens |-> Get(l.v.d.usage.d, "input_tokens", JInt(0)),
                   cached_input_tokens |-> Get(l.v.d.usage.d, "cached_input_tokens", JInt(0)),
                   output_tokens |-> Get(l.v.d.usage.d, "output_tokens", JInt(0))]
             ELSE UsageAfter(SubSeq(lines, 1, Len(lines) - 1))

\* C36: after any sequence of lines, command_count is the number of
\* item.started lines of command_execution items with an id, mcp_call_count
\* the number of item.started lines of mcp_tool_call items, usage that of the
\* last turn.completed with usage; the starts kept are the outstanding ones,
\* an item.completed takes away at most the one start of its id, the timed
\* commands are never more than command_count, and command_time changes
\* only when an item.completed finds an outstanding start.
C36_Accounting ==
    [][LET lines == arg'.lines
           l == lines[Len(lines)]
       IN  /\ ret'.command_count = Count(lines, StartedCommand)
           /\ ret'.mcp_call_count = Count(lines, StartedMcp)
           /\ ret'.usage = UsageAfter(lines)
           /\ DOMAIN ret'.command_start_times = Outstanding(lines)
           /\ TimedCommands(lines) <= ret'.command_count
           /\ ret'.command_time >= ret.command_time
           /\ lines # arg.lines =>
                 /\ DOMAIN ret.command_start_times \ DOMAIN ret'.command_start_times
                        \subseteq (IF CompletedCommand(l) THEN {IdOf(l)} ELSE {})
                 /\ ret'.command_time # ret.command_time =>
                        /\ CompletedCommand(l)
                        /\ IdOf(l) \in DOMAIN ret.command_start_times
                        /\ IdOf(l) \notin DOMAIN ret'.command_start_times]_vars

\* c1 was started and, a tick later, completed twice: one timed command
C36_Witness ==
    /\ arg = [lines |-> <<BenchItemLine("item.started", "command_execution", "c1"),
                          BenchItemLine("item.completed", "command_execution", "c1"),
                          BenchItemLine("item.completed", "command_execution", "c1")>>]
    /\ ret.command_count = 1
    /\ ret.command_time = 1
    /\ ret.command_start_times = EmptyDict
    /\ clock = 3

\* the lines of an output, as bytes: those the subprocess wrote, the last
\* one cut short when the subprocess stopped inside it
LinesOf(o) ==
    [k \in DOMAIN o.lines |->
        IF o.cut /\ k = Len(o.lines) THEN <<Piece(o.lines[k], 1)>> ELSE Bytes(o.lines[k])]

IsPrefix(a, b) == Len(a) <= Len(b) /\ a = SubSeq(b, 1, Len(a))

\* the lines that are JSON and arrived whole
JsonLines(o) ==
    SelectSeq(IF o.cut THEN SubSeq(o.lines, 1, Len(o.lines) - 1) ELSE o.lines,
              LAMBDA l : l.k = "json")

RECURSIVE HandledOneByOne(_, _)
HandledOneByOne(f, lines) ==
    IF lines = <<>> THEN f ELSE HandledOneByOne(handle_line(f, Head(lines), 1), Tail(lines))

\* C37: however the output is divided into chunks, the lines handed to
\* handle_line are, in order and once each, the lines of the output: lines
\* over a chunk boundary are put together, a last line without newline is
\* handled once at the end of the stream, and the counters are those of the
\* JSON lines alone.
C37_ChunkingIndependent ==
    /\ IsPrefix(ret.handled, LinesOf(arg))
    /\ ret.pc = "read" =>
          ret.buffer \o SubSeq(arg.output, ret.pos + 1, Len(arg.output))
              = Written(SubSeq(arg.lines, Len(ret.handled) + 1, Len(arg.lines)),
                        arg.newline, arg.cut)
    /\ ret.pc = "returned" =>
          /\ ret.handled = LinesOf(arg)
          /\ ret.locals = HandledOneByOne(NewFrame, JsonLines(arg))

\* a command started and completed, the second line without newline, read
\* in chunks that ended inside the first line and inside the second
C37_Witness ==
    /\ arg.lines = <<BenchItemLine("item.started", "command_execution", "c1"),
                     BenchItemLine("item.completed", "command_execution", "c1")>>
    /\ ~arg.newline
    /\ ~arg.cut
    /\ ret.pos = 4
    /\ Len(ret.buffer) = 1
    /\ Len(ret.handled) = 1
    /\ ret.locals.command_count = 1

\* C34: every Thread.run comes to its end, whatever the size of the prompt
\* and whatever the subprocess writes to its standard error: a run that has
\* not ended is never in a state where neither it nor its subprocess, which
\* waits for nothing but room in a pipe, can take a step.
C34_RunNeverStuck == pc = "done" \/ ENABLED NextPipes

\* C31: patch_reindeer_output_for_test_features applied to what it returned
\* returns the same text, whether or not the rule of similar-2.7.0 has a
\* list of features.
C31_PatchIdempotent ==
    Len(ret.patched) >= 2 => ret.patched[2] = ret.patched[1]

\* C32: the script run on the file that it wrote leaves the file as it is,
\* and the file has one overlay section.
C32_RerunLeavesFile ==
    [][(ret.runs >= 1 /\ ret'.runs = ret.runs + 1) =>
          /\ ret'.file = ret.file
          /\ Cardinality({k \in DOMAIN ret'.file.lines : ret'.file.lines[k] = BEGIN_MARKER}) <= 1]_vars

\* a dependency that is not dev-only: it has no kind, or a kind that is not dev
Followed(dep) == dep.dep_kinds = <<>> \/ \E k \in DOMAIN dep.dep_kinds : dep.dep_kinds[k] # "dev"

\* the packages one such dependency away from those of `from`
OneStep(meta, from) ==
    from \cup {t \in PackageIds :
                 \E s \in from \cap DOMAIN meta.nodes :
                    \E k \in DOMAIN meta.nodes[s] :
                       meta.nodes[s][k].pkg = t /\ Followed(meta.nodes[s][k])}

\* the packages that the workspace members reach
ReachableFromMembers(meta) ==
    LET roots == {meta.workspace_members[k] : k \in DOMAIN meta.workspace_members}
    IN  OneStep(meta, OneStep(meta, OneStep(meta, roots)))

\* C39: reindeer_reachable_package_ids returns on every graph, cyclic ones
\* too, and what it returns is the set of the packages that the workspace
\* members reach over dependencies that are not dev-only, the members
\* among them.
C39_ReachableTerminatesAndIsExact ==
    /\ <>(ret.pc = "returned")
    /\ [](ret.pc = "returned" =>
             /\ ret.reachable = ReachableFromMembers(arg)
             /\ \A k \in DOMAIN arg.workspace_members :
                   arg.workspace_members[k] \in ret.reachable)

\* w and a depend on each other, a has b as a dev-dependency only and b
\* depends on a: the call returned w and a
C39_Witness ==
    /\ ret.pc = "returned"
    /\ arg.workspace_members = <<"w">>
    /\ "b" \in DOMAIN arg.nodes
    /\ arg.nodes["w"] = <<[pkg |-> "a", dep_kinds |-> <<"normal">>]>>
    /\ arg.nodes["a"] = <<[pkg |-> "b", dep_kinds |-> <<"dev">>],
                          [pkg |-> "w", dep_kinds |-> <<"dev", "normal">>]>>
    /\ arg.nodes["b"] = <<[pkg |-> "a", dep_kinds |-> <<>>]>>
    /\ ret.reachable = {"w", "a"}

====
